---- MODULE Spec2Model ----
(***************************************************************************)
(* Multi-agent query router: orchestrator workflow (src/orchestrator.py),  *)
(* query classifier (src/agents/router.py), the two web-search agents      *)
(* (src/agents/web_search_agent.py, src/agents/enhanced_web_search_agent.py),*)
(* response synthesizer (src/agents/synthesizer.py), per-file vector      *)
(* store (src/utils/vector_store.py) and file analysis agent               *)
(* (src/agents/file_analysis_agent.py)                                     *)
(***************************************************************************)
EXTENDS Integers, Sequences, FiniteSets, TLC

VARIABLES
    \* ---- MultiAgentOrchestrator.process_query / AgentState ----
    node,            \* workflow position: next node to run, "END", or "returned"
    trace,           \* sequence of workflow nodes executed so far
    file_paths,      \* number of file paths given to process_query
    agent_choice,    \* AgentState['agent_choice']
    state_error,     \* AgentState['error']
    web_results,     \* AgentState['web_results']
    file_results,    \* AgentState['file_results']
    final_response,  \* AgentState['final_response']
    raised,          \* stages whose collaborator call raised into the node's except
    result,          \* dict returned by process_query
    \* ---- QueryRouter.classify_query ----
    r_pc,            \* "idle", "call" (about to run r_op) or "done"
    r_op,            \* method called: "classify_query" or "_fallback_classification"
    r_query,         \* query text, a sequence of characters
    r_has_files,     \* has_files argument
    r_llm,           \* what the LLM does when invoked
    r_ret,           \* what the call returned
    \* ---- WebSearchAgent.search / EnhancedWebSearchAgent.search ----
    s_pc,            \* "idle", "try" (inside the loop of search) or "done"
    s_agent,         \* class whose search() is running
    attempt,         \* WebSearchAgent: loop variable `attempt` (attempts made)
    wait_time,       \* WebSearchAgent: local wait_time
    sleeps,          \* WebSearchAgent: arguments of the time.sleep calls so far
    src_idx,         \* EnhancedWebSearchAgent: index of the next search source
    all_results,     \* EnhancedWebSearchAgent: local all_results
    s_log,           \* backend invocations so far, in order
    s_ret,           \* list returned by search()
    \* ---- ResponseSynthesizer.synthesize_response ----
    y_pc,            \* "idle", "call" or "done"
    y_query,         \* query argument
    y_web,           \* web_results argument
    y_file,          \* file_results argument
    y_llm,           \* what the LLM does when invoked (or that there is none)
    y_ret,           \* dict returned by synthesize_response
    \* ---- VectorStoreManager ----
    vector_stores,   \* self.vector_stores: file name -> indexed chunks
    documents,       \* self.documents: file name -> chunk list
    fallback_texts,  \* self.fallback_texts: file name -> full text
    i_pc,            \* load_and_embed_file: "idle", "loaded" or "split"
    i_name,          \* its file_name argument
    i_docs,          \* its local docs (the content loaded)
    i_splits,        \* its local splits
    i_result,        \* how the last call ended: "none", "True" or "raised"
    i_before,        \* the three entries of i_name when the call began
    i_calls,         \* number of load_and_embed_file calls begun
    completed,       \* file name -> contents whose ingest returned True
    rt_pc,           \* retrieve_relevant_docs: "idle", "checked" or "done"
    rt_name,         \* its file_name argument
    rt_query,        \* its query argument
    rt_during,       \* an ingest of rt_name was under way when it read the maps
    rt_ret,          \* what it returned, or that it raised
    rt_calls,        \* number of retrieve_relevant_docs calls begun
    rm_repeated,     \* remove_file: the last call was for a name already removed
    rm_calls,        \* number of remove_file calls made
    removed,         \* names removed and not written by an ingest since
    \* ---- FileAnalysisAgent ----
    use_embeddings,  \* self.use_embeddings, fixed by the constructor
    vectorstore,     \* self.vectorstore: None, a simple text store or an index
    f_op,            \* last method called: "none", "process_files", "search_documents"
    f_files,         \* process_files: the files behind its file_paths argument
    f_query,         \* query argument of the last call
    f_before,        \* file paths indexed in self.vectorstore when the last call began
    f_ret,           \* what the last call returned
    \* ---- WebSearchAgent.process_query / extract_key_information ----
    p_op,            \* last method called: "none", "process_query", "extract_key_information"
    p_query,         \* query argument
    p_first,         \* what self.llm.answer gives when asked before the search
    p_search,        \* what self.search gives (a list, or that it raises)
    p_fallback,      \* what self.llm.answer gives when asked after the search
    p_results,       \* extract_key_information: its results argument
    p_asked,         \* collaborators process_query called, in order
    p_ret            \* what the last call returned

orchVars == <<node, trace, file_paths, agent_choice, state_error,
              web_results, file_results, final_response, raised, result>>

routerVars == <<r_pc, r_op, r_query, r_has_files, r_llm, r_ret>>

searchVars == <<s_pc, s_agent, attempt, wait_time, sleeps, src_idx,
                all_results, s_log, s_ret>>

synthVars == <<y_pc, y_query, y_web, y_file, y_llm, y_ret>>

storeVars == <<vector_stores, documents, fallback_texts, i_pc, i_name, i_docs,
               i_splits, i_result, i_before, i_calls, completed, rt_pc,
               rt_name, rt_query, rt_during, rt_ret, rt_calls, rm_repeated, rm_calls, removed>>

fileVars == <<use_embeddings, vectorstore, f_op, f_files, f_query, f_before,
              f_ret>>

agentVars == <<p_op, p_query, p_first, p_search, p_fallback, p_results,
               p_asked, p_ret>>

vars == <<orchVars, routerVars, searchVars, synthVars, storeVars, fileVars,
          agentVars>>

-----------------------------------------------------------------------------
(* Values *)

None == [tag |-> "None"]

ValidChoices == {"WEB_SEARCH", "FILE_ANALYSIS", "BOTH"}

\* Bound: largest number of file paths handed to process_query.
MaxFiles == 1

\* Bound: largest number of chunks/results a handler reports.
MaxHits == 1

-----------------------------------------------------------------------------
(* Each component is exercised on its own; the variables of the others stay  *)
(* at these values.                                                         *)

RouterIdle ==
    /\ r_pc = "idle"
    /\ r_op = ""
    /\ r_query = <<>>
    /\ r_has_files = FALSE
    /\ r_llm = [kind |-> "unavailable", content |-> <<>>]
    /\ r_ret = None

OrchIdle ==
    /\ node = "idle"
    /\ trace = <<>>
    /\ file_paths = 0
    /\ agent_choice = ""
    /\ state_error = "None"
    /\ web_results = None
    /\ file_results = None
    /\ final_response = None
    /\ raised = {}
    /\ result = None

SearchIdle ==
    /\ s_pc = "idle"
    /\ s_agent = ""
    /\ attempt = 0
    /\ wait_time = 0
    /\ sleeps = <<>>
    /\ src_idx = 0
    /\ all_results = <<>>
    /\ s_log = <<>>
    /\ s_ret = None

SynthIdle ==
    /\ y_pc = "idle"
    /\ y_query = <<>>
    /\ y_web = None
    /\ y_file = None
    /\ y_llm = [kind |-> "unavailable", content |-> <<>>]
    /\ y_ret = None

StoreIdle ==
    /\ vector_stores = <<>>
    /\ documents = <<>>
    /\ fallback_texts = <<>>
    /\ i_pc = "idle"
    /\ i_name = ""
    /\ i_docs = None
    /\ i_splits = <<>>
    /\ i_result = "none"
    /\ i_before = None
    /\ i_calls = 0
    /\ completed = <<>>
    /\ rt_pc = "idle"
    /\ rt_name = ""
    /\ rt_query = <<>>
    /\ rt_during = FALSE
    /\ rt_ret = None
    /\ rt_calls = 0
    /\ rm_repeated = FALSE
    /\ rm_calls = 0
    /\ removed = {}

FilesIdle ==
    /\ use_embeddings = FALSE
    /\ vectorstore = None
    /\ f_op = "none"
    /\ f_files = <<>>
    /\ f_query = <<>>
    /\ f_before = {}
    /\ f_ret = None

AgentIdle ==
    /\ p_op = "none"
    /\ p_query = <<>>
    /\ p_first = None
    /\ p_search = None
    /\ p_fallback = None
    /\ p_results = <<>>
    /\ p_asked = <<>>
    /\ p_ret = None

-----------------------------------------------------------------------------
(* Text: a Python str is a sequence of one-character strings *)

Whitespace == {" ", "\t", "\n", "\r"}

LowerLetters ==
    <<"a", "b", "c", "d", "e", "f", "g", "h", "i", "j", "k", "l", "m",
      "n", "o", "p", "q", "r", "s", "t", "u", "v", "w", "x", "y", "z">>

UpperLetters ==
    <<"A", "B", "C", "D", "E", "F", "G", "H", "I", "J", "K", "L", "M",
      "N", "O", "P", "Q", "R", "S", "T", "U", "V", "W", "X", "Y", "Z">>

IndexIn(c, letters) ==
    IF \E i \in 1..Len(letters) : letters[i] = c
    THEN CHOOSE i \in 1..Len(letters) : letters[i] = c
    ELSE 0

\* str.upper() / str.lower(), character by character.
UpperChar(c) ==
    IF IndexIn(c, LowerLetters) > 0 THEN UpperLetters[IndexIn(c, LowerLetters)] ELSE c

LowerChar(c) ==
    IF IndexIn(c, UpperLetters) > 0 THEN LowerLetters[IndexIn(c, UpperLetters)] ELSE c

ToUpper(s) == [i \in 1..Len(s) |-> UpperChar(s[i])]

ToLower(s) == [i \in 1..Len(s) |-> LowerChar(s[i])]

\* str.strip(): drop leading and trailing whitespace.
Strip(s) ==
    LET keep == {i \in 1..Len(s) : s[i] \notin Whitespace} IN
    IF keep = {} THEN <<>>
    ELSE LET lo == CHOOSE i \in keep : \A j \in keep : i <= j
             hi == CHOOSE i \in keep : \A j \in keep : j <= i
         IN SubSeq(s, lo, hi)

\* Position of the first newline, or Len(s) + 1 when there is none.
FirstNewline(s) ==
    LET nl == {i \in 1..Len(s) : s[i] = "\n"} IN
    IF nl = {} THEN Len(s) + 1
    ELSE CHOOSE i \in nl : \A j \in nl : i <= j

\* s.split('\n')[0]
FirstLine(s) == SubSeq(s, 1, FirstNewline(s) - 1)

\* len(s.split('\n')) > 1
HasMoreLines(s) == FirstNewline(s) <= Len(s)

\* '\n'.join(s.split('\n')[1:])
RestLines(s) == SubSeq(s, FirstNewline(s) + 1, Len(s))

\* sub in s
Contains(s, sub) ==
    \E i \in 0..(Len(s) - Len(sub)) :
        \A k \in 1..Len(sub) : s[i + k] = sub[k]

-----------------------------------------------------------------------------
(* QueryRouter (src/agents/router.py) *)

\* The three labels as character sequences.
WEB_SEARCH ==
    <<"W", "E", "B", "_", "S", "E", "A", "R", "C", "H">>
FILE_ANALYSIS ==
    <<"F", "I", "L", "E", "_", "A", "N", "A", "L", "Y", "S", "I", "S">>
BOTH ==
    <<"B", "O", "T", "H">>

\* web_indicators of the has_files branch (router.py line 104).
file_web_indicators ==
    << <<"c", "u", "r", "r", "e", "n", "t">>,
       <<"l", "a", "t", "e", "s", "t">>,
       <<"r", "e", "c", "e", "n", "t">>,
       <<"t", "o", "d", "a", "y">>,
       <<"n", "o", "w">>,
       <<"w", "e", "a", "t", "h", "e", "r">>,
       <<"n", "e", "w", "s">> >>

\* web_indicators of the no-files branch (router.py lines 110-115).
web_indicators ==
    << <<"w", "h", "a", "t", " ", "i", "s">>,
       <<"w", "h", "o", " ", "i", "s">>,
       <<"w", "h", "e", "n", " ", "d", "i", "d">>,
       <<"w", "h", "e", "r", "e", " ", "i", "s">>,
       <<"h", "o", "w", " ", "t", "o">>,
       <<"c", "u", "r", "r", "e", "n", "t">>,
       <<"l", "a", "t", "e", "s", "t">>,
       <<"r", "e", "c", "e", "n", "t">>,
       <<"t", "o", "d", "a", "y">>,
       <<"n", "o", "w">>,
       <<"w", "e", "a", "t", "h", "e", "r">>,
       <<"n", "e", "w", "s">>,
       <<"s", "t", "o", "c", "k">>,
       <<"p", "r", "i", "c", "e">>,
       <<"c", "a", "p", "i", "t", "a", "l", " ", "o", "f">>,
       <<"w", "o", "n">>,
       <<"c", "h", "a", "m", "p", "i", "o", "n", "s", "h", "i", "p">>,
       <<"e", "l", "e", "c", "t", "i", "o", "n">>,
       <<"c", "o", "v", "i", "d">>,
       <<"p", "a", "n", "d", "e", "m", "i", "c">> >>

\* Query texts the classifier is exercised on.
Queries ==
    { <<>>,
      <<"T", "e", "s", "t", " ", "q", "u", "e", "r", "y">>,
      <<"S", "u", "m", "m", "a", "r", "i", "z", "e", " ", "t", "h", "i",
          "s", " ", "d", "o", "c", "u", "m", "e", "n", "t">>,
      <<"W", "h", "a", "t", " ", "i", "s", " ", "t", "h", "e", " ", "c",
          "a", "p", "i", "t", "a", "l", " ", "o", "f", " ", "F", "r", "a",
          "n", "c", "e", "?">>,
      <<"L", "A", "T", "E", "S", "T", " ", "N", "e", "w", "s">>,
      <<"I", " ", "k", "n", "o", "w", " ", "t", "h", "i", "s", " ", "f",
          "i", "l", "e">>,
      <<"w", "e", "a", "t", "h", "e", "r", " ", "T", "o", "d", "a", "y">>,
      <<"s", "t", "o", "c", "k", " ", "p", "r", "i", "c", "e">>,
      <<"C", "o", "m", "p", "a", "r", "e", " ", "w", "i", "t", "h", " ",
          "c", "u", "r", "r", "e", "n", "t", " ", "n", "e", "w", "s">> }

\* Reply texts (response.content) the LLM is taken to produce.
Replies ==
    { <<"W", "E", "B", "_", "S", "E", "A", "R", "C", "H", "\n", "T", "h",
          "i", "s", " ", "i", "s", " ", "a", " ", "w", "e", "b", " ", "s",
          "e", "a", "r", "c", "h", " ", "q", "u", "e", "r", "y">>,
      <<"F", "I", "L", "E", "_", "A", "N", "A", "L", "Y", "S", "I", "S",
          "\n", "r", "e", "a", "s", "o", "n">>,
      <<"B", "O", "T", "H">>,
      <<"b", "o", "t", "h", "\n", "w", "h", "y">>,
      <<" ", " ", "B", "o", "t", "h", " ", "\t", "\n", "w", "h", "y">>,
      <<"\n", "B", "O", "T", "H", "\n", "w", "h", "y">>,
      <<>>,
      <<"I", " ", "t", "h", "i", "n", "k", " ", "W", "E", "B", "_", "S",
          "E", "A", "R", "C", "H">>,
      <<"W", "E", "B", "_", "S", "E", "A", "R", "C", "H", ".">>,
      <<"f", "i", "l", "e", "_", "a", "n", "a", "l", "y", "s", "i", "s",
          " ", "\n">>,
      <<"\n", "\n", " ", " ", "w", "e", "b", "_", "s", "e", "a", "r",
          "c", "h">>,
      <<"M", "A", "Y", "B", "E", "\n", "B", "O", "T", "H">>,
      <<" ", "\n", " ">> }

valid_choices == {WEB_SEARCH, FILE_ANALYSIS, BOTH}

\* What self.llm does for a classify_query call: the router has no LLM
\* (use_llm false), invoke() raises, or invoke() returns a reply.
LLMOutcomes ==
    { [kind |-> "unavailable", content |-> <<>>],
      [kind |-> "raises", content |-> <<>>] }
    \cup { [kind |-> "reply", content |-> c] : c \in Replies }

\* any(indicator in text for indicator in indicators)
AnyIndicatorIn(indicators, text) ==
    \E i \in 1..Len(indicators) : Contains(text, indicators[i])

\* Variant: the query is matched without being lower-cased.
query_lower_not_lowered(query) == query

\* query_lower = query.lower()   (router.py line 99)
query_lower(query) == ToLower(query)

\* Variant: the recency check is made whether or not files are attached.
fallback_classification_ignores_has_files(query, has_files) ==
    IF AnyIndicatorIn(file_web_indicators, query_lower(query))
    THEN BOTH
    ELSE IF has_files THEN FILE_ANALYSIS ELSE WEB_SEARCH

\* _fallback_classification
fallback_classification(query, has_files) ==
    IF has_files
    THEN IF AnyIndicatorIn(file_web_indicators, query_lower(query))
         THEN BOTH
         ELSE FILE_ANALYSIS
    ELSE IF AnyIndicatorIn(web_indicators, query_lower(query))
         THEN WEB_SEARCH
         ELSE WEB_SEARCH

\* response_text = response.content.strip()   (router.py line 67)
response_text(content) == Strip(content)

\* Variant: the first line is not upper-cased.
parsed_choice_not_uppercased(content) == Strip(FirstLine(response_text(content)))

\* agent_choice = lines[0].strip().upper()   (router.py lines 70-71)
parsed_choice(content) == ToUpper(Strip(FirstLine(response_text(content))))

\* reasoning (router.py line 79)
parsed_reasoning(content) ==
    IF HasMoreLines(response_text(content))
    THEN [text |-> Strip(RestLines(response_text(content))), note |-> "llm"]
    ELSE [text |-> <<>>, note |-> "No reasoning provided"]

\* Variant: the except branch lets the LLM error escape.
classify_on_error_reraises(query, has_files) ==
    [exc |-> TRUE,
     choice |-> <<>>,
     reasoning |-> [text |-> <<>>, note |-> ""]]

\* The except branch of classify_query (router.py lines 83-86).
classify_on_error(query, has_files) ==
    [exc |-> FALSE,
     choice |-> fallback_classification(query, has_files),
     reasoning |-> [text |-> <<>>, note |-> "Fallback due to error"]]

\* classify_query
classify_query(query, has_files, llm) ==
    IF llm.kind = "unavailable"
    THEN [exc |-> FALSE,
          choice |-> fallback_classification(query, has_files),
          reasoning |-> [text |-> <<>>, note |-> "Using rule-based classification"]]
    ELSE IF llm.kind = "raises"
    THEN classify_on_error(query, has_files)
    ELSE [exc |-> FALSE,
          choice |-> IF parsed_choice(llm.content) \notin valid_choices
                     THEN fallback_classification(query, has_files)
                     ELSE parsed_choice(llm.content),
          reasoning |-> parsed_reasoning(llm.content)]

RouterInit ==
    /\ r_pc = "call"
    /\ r_op \in {"classify_query", "_fallback_classification"}
    /\ r_query \in Queries
    /\ r_has_files \in BOOLEAN
    /\ r_llm \in IF r_op = "classify_query" THEN LLMOutcomes
                 ELSE {[kind |-> "unavailable", content |-> <<>>]}
    /\ r_ret = None
    /\ OrchIdle
    /\ SearchIdle
    /\ SynthIdle
    /\ StoreIdle
    /\ FilesIdle
    /\ AgentIdle

CallClassifyQuery ==
    /\ r_pc = "call"
    /\ r_op = "classify_query"
    /\ r_ret' = classify_query(r_query, r_has_files, r_llm)
    /\ r_pc' = "done"
    /\ UNCHANGED <<r_op, r_query, r_has_files, r_llm, orchVars, searchVars, synthVars,
                 storeVars, fileVars,
                   agentVars>>

CallFallbackClassification ==
    /\ r_pc = "call"
    /\ r_op = "_fallback_classification"
    /\ r_ret' = [exc |-> FALSE,
                 choice |-> fallback_classification(r_query, r_has_files),
                 reasoning |-> [text |-> <<>>, note |-> ""]]
    /\ r_pc' = "done"
    /\ UNCHANGED <<r_op, r_query, r_has_files, r_llm, orchVars, searchVars, synthVars,
                 storeVars, fileVars,
                   agentVars>>

RouterNext ==
    \/ CallClassifyQuery
    \/ CallFallbackClassification

SpecRouter == RouterInit /\ [][RouterNext]_vars

-----------------------------------------------------------------------------
(* Router properties *)

ClassifyDone == r_pc = "done" /\ r_op = "classify_query"

\* The first line of the reply as it was received, trimmed and upper-cased.
ReplyFirstLineLabel == ToUpper(Strip(FirstLine(r_llm.content)))

\* The first line of the reply once surrounding whitespace (leading blank
\* lines included) has been trimmed off the whole reply, trimmed and
\* upper-cased.
TrimmedReplyFirstLineLabel == ToUpper(Strip(FirstLine(Strip(r_llm.content))))

\* C4 (as stated): classify_query never raises and returns one of the three
\* labels; when the LLM is unavailable, when its call raises, and when the
\* first line of its reply is not one of the three labels, the choice is the
\* rule-based fallback's choice for the same (query, has_files).
C4_Original ==
    ClassifyDone =>
        /\ ~r_ret.exc
        /\ r_ret.choice \in {WEB_SEARCH, FILE_ANALYSIS, BOTH}
        /\ ( \/ r_llm.kind \in {"unavailable", "raises"}
             \/ ReplyFirstLineLabel \notin {WEB_SEARCH, FILE_ANALYSIS, BOTH} )
           => r_ret.choice = fallback_classification(r_query, r_has_files)

\* C4 (amended): as above, with "first line of the reply" read as the first
\* line of the whitespace-trimmed reply, i.e. leading blank lines are skipped
\* before the label is looked for.
C4_DegradesToFallback ==
    ClassifyDone =>
        /\ ~r_ret.exc
        /\ r_ret.choice \in {WEB_SEARCH, FILE_ANALYSIS, BOTH}
        /\ ( \/ r_llm.kind \in {"unavailable", "raises"}
             \/ TrimmedReplyFirstLineLabel \notin {WEB_SEARCH, FILE_ANALYSIS, BOTH} )
           => r_ret.choice = fallback_classification(r_query, r_has_files)

C4_Witness ==
    /\ ClassifyDone
    /\ r_llm.kind = "raises"
    /\ r_has_files
    /\ r_ret.choice = BOTH

\* C5: with has_files = false the rule-based fallback returns WEB_SEARCH for
\* every query text, also for one that contains no search indicator; it
\* never returns FILE_ANALYSIS or BOTH.
C5_NoFilesNeverFileAnalysis ==
    ( /\ r_pc = "done"
      /\ ~r_has_files
      /\ r_op = "_fallback_classification" \/ r_llm.kind \in {"unavailable", "raises"} )
    => r_ret.choice = WEB_SEARCH

C5_Witness ==
    /\ r_pc = "done"
    /\ r_op = "_fallback_classification"
    /\ ~r_has_files
    /\ r_query = <<"S", "u", "m", "m", "a", "r", "i", "z", "e", " ", "t", "h", "i", "s", " ", "d", "o", "c", "u", "m", "e", "n", "t">>
    /\ r_ret.choice = WEB_SEARCH

\* The recency keywords named by the fallback policy.
RecencyKeywords ==
    { <<"c", "u", "r", "r", "e", "n", "t">>,
      <<"l", "a", "t", "e", "s", "t">>,
      <<"r", "e", "c", "e", "n", "t">>,
      <<"t", "o", "d", "a", "y">>,
      <<"n", "o", "w">>,
      <<"w", "e", "a", "t", "h", "e", "r">>,
      <<"n", "e", "w", "s">> }

HasRecencyKeyword(query) ==
    \E kw \in RecencyKeywords : Contains(ToLower(query), kw)

\* C6: with has_files = true the rule-based fallback returns BOTH if the
\* lower-cased query contains a recency keyword and FILE_ANALYSIS otherwise,
\* never WEB_SEARCH.
C6_FilesFallbackPolicy ==
    ( /\ r_pc = "done"
      /\ r_has_files
      /\ r_op = "_fallback_classification" \/ r_llm.kind \in {"unavailable", "raises"} )
    => r_ret.choice = IF HasRecencyKeyword(r_query) THEN BOTH ELSE FILE_ANALYSIS

C6_Witness ==
    /\ r_pc = "done"
    /\ r_op = "_fallback_classification"
    /\ r_has_files
    /\ r_query = <<"L", "A", "T", "E", "S", "T", " ", "N", "e", "w", "s">>
    /\ r_ret.choice = BOTH

\* C7: when the LLM replies and the first line of the reply, trimmed and
\* upper-cased, is one of the three labels, classify_query returns exactly
\* that label whatever the query and has_files are (the fallback's choice and
\* the has_files flag play no part).
C7_ValidLabelReturnedAsIs ==
    ( /\ ClassifyDone
      /\ r_llm.kind = "reply"
      /\ ReplyFirstLineLabel \in {WEB_SEARCH, FILE_ANALYSIS, BOTH} )
    => r_ret.choice = ReplyFirstLineLabel

C7_Witness ==
    /\ ClassifyDone
    /\ r_llm.kind = "reply"
    /\ ~r_has_files
    /\ r_llm.content # ReplyFirstLineLabel
    /\ ReplyFirstLineLabel = FILE_ANALYSIS
    /\ r_ret.choice = FILE_ANALYSIS
    /\ fallback_classification(r_query, r_has_files) = WEB_SEARCH

-----------------------------------------------------------------------------
(* Web-search agents (src/agents/web_search_agent.py,                       *)
(* src/agents/enhanced_web_search_agent.py)                                 *)

\* Constructor defaults of WebSearchAgent and EnhancedWebSearchAgent.
max_results == 5
max_retries == 3
initial_wait == 2

\* Raw result lists a search backend is taken to answer with; an entry is the
\* url of one raw result ("" when the backend gives none).
RawResults ==
    { <<>>,
      <<"a">>,
      <<"a", "b">>,
      <<"", "a", "">>,
      <<"b", "c", "b">>,
      <<"c", "d", "a", "e", "f", "g">> }

\* results[:n]
Take(seq, n) == SubSeq(seq, 1, IF Len(seq) < n THEN Len(seq) ELSE n)

\* The list comprehension that builds the processed results of one backend.
processed_results(raw, source) ==
    [i \in 1..Len(Take(raw, max_results)) |->
        [rank |-> i, url |-> raw[i], source |-> source, error |-> FALSE]]

\* The synthetic "Search Error" entry of WebSearchAgent.search.
search_error_entry ==
    [rank |-> 1, url |-> "", source |-> "web_search", error |-> TRUE]

\* What self.search_tool.run(query) does in one attempt: raises a rate-limit
\* error, raises another error, returns a list, or returns a string.
SearchToolOutcomes ==
    { [kind |-> k, raw |-> <<>>] : k \in {"ratelimit", "error"} }
    \cup { [kind |-> "ok", raw |-> r] : r \in RawResults }
    \cup { [kind |-> "ok", raw |-> <<"">>] }

\* Variant: the wait grows linearly.
next_wait_linear(w) == w + initial_wait

\* wait_time *= 2
next_wait(w) == w * 2

\* Variant: every exception of the backend counts as a rate limit.
is_rate_limit_any_exception(out) == out.kind \in {"ratelimit", "error"}

\* "202 ratelimit" in msg or "rate limit" in msg, for the exception raised by
\* the attempt.
is_rate_limit(out) == out.kind = "ratelimit"

\* One iteration of the retry loop of WebSearchAgent.search; the last
\* iteration includes the return that follows the loop.
web_search_attempt ==
    /\ s_pc = "try"
    /\ s_agent = "WebSearchAgent"
    /\ attempt < max_retries
    /\ attempt' = attempt + 1
    /\ \E out \in SearchToolOutcomes :
         /\ s_log' = Append(s_log, [source |-> "duckduckgo", outcome |-> out.kind,
                                    raw |-> out.raw, request |-> TRUE,
                                    returned |-> Len(Take(out.raw, max_results)),
                                    before |-> 0, after |-> 0])
         /\ CASE out.kind = "ok" ->
                   /\ s_ret' = processed_results(out.raw, "web_search")
                   /\ s_pc' = "done"
                   /\ UNCHANGED <<wait_time, sleeps>>
              [] out.kind # "ok" /\ is_rate_limit(out) ->
                   /\ sleeps' = Append(sleeps, wait_time)
                   /\ wait_time' = next_wait(wait_time)
                   /\ IF attempt + 1 = max_retries
                      THEN /\ s_ret' = <<search_error_entry>>
                           /\ s_pc' = "done"
                      ELSE UNCHANGED <<s_ret, s_pc>>
              [] out.kind # "ok" /\ ~is_rate_limit(out) ->
                   /\ s_ret' = <<search_error_entry>>
                   /\ s_pc' = "done"
                   /\ UNCHANGED <<wait_time, sleeps>>
    /\ UNCHANGED <<s_agent, src_idx, all_results, orchVars, routerVars, synthVars,
                 storeVars, fileVars,
                   agentVars>>

\* self.search_sources
search_sources == <<"duckduckgo", "serpapi", "brave", "google_custom">>

\* Backends that first look for an API key in the configuration.
NeedsKey == {"serpapi", "brave", "google_custom"}

\* What one _search_<backend>(query) call does: the key is missing, the
\* request or its decoding raises (caught inside, [] returned), or a raw
\* result list comes back.
SourceOutcomes(source) ==
    { [kind |-> "error", raw |-> <<>>] }
    \cup { [kind |-> "ok", raw |-> r] : r \in RawResults }
    \cup ( IF source \in NeedsKey
           THEN { [kind |-> "no_key", raw |-> <<>>] } ELSE {} )

\* Variant: the backend goes on to its request without looking for the key.
has_api_key_unchecked(source, out) == TRUE

\* not (hasattr(self.config, '<KEY>') and self.config.<KEY>), negated: the
\* backend has what it needs to issue its request.
has_api_key(source, out) == source \notin NeedsKey \/ out.kind # "no_key"

\* Whether _search_<backend>(query) gets as far as its outbound call
\* (requests.get, or ddgs.text for duckduckgo).
issues_request(source, out) == has_api_key(source, out)

\* Return value of _search_<backend>(query).
search_func(source, out) ==
    IF ~has_api_key(source, out) THEN <<>>
    ELSE IF out.kind = "ok" THEN processed_results(out.raw, source)
    ELSE <<>>

\* Variant: the loop stops only when max_results is exceeded.
enough_results_strict(results) == Len(results) > max_results

\* if len(all_results) >= self.max_results: break
enough_results(results) == Len(results) >= max_results

\* Variant: an empty url is remembered and merged like any other url.
RECURSIVE unique_results_merges_empty(_, _)
unique_results_merges_empty(results, seen_urls) ==
    IF results = <<>> THEN <<>>
    ELSE LET r == Head(results) IN
         IF r.url \notin seen_urls
         THEN <<r>> \o unique_results_merges_empty(Tail(results),
                                                   seen_urls \cup {r.url})
         ELSE unique_results_merges_empty(Tail(results), seen_urls)

\* "Remove duplicates based on URL" loop of EnhancedWebSearchAgent.search.
RECURSIVE unique_results(_, _)
unique_results(results, seen_urls) ==
    IF results = <<>> THEN <<>>
    ELSE LET r == Head(results) IN
         IF r.url # "" /\ r.url \notin seen_urls
         THEN <<r>> \o unique_results(Tail(results), seen_urls \cup {r.url})
         ELSE IF r.url = ""
         THEN <<r>> \o unique_results(Tail(results), seen_urls)
         ELSE unique_results(Tail(results), seen_urls)

\* final_results = unique_results[:self.max_results]
final_results(results) == Take(unique_results(results, {}), max_results)

\* One iteration of the source loop of EnhancedWebSearchAgent.search; the
\* iteration that leaves the loop includes the de-duplication and the return.
enhanced_try_source ==
    /\ s_pc = "try"
    /\ s_agent = "EnhancedWebSearchAgent"
    /\ src_idx <= Len(search_sources)
    /\ \E out \in SourceOutcomes(search_sources[src_idx]) :
         LET results == search_func(search_sources[src_idx], out)
             acc == IF results # <<>> THEN all_results \o results ELSE all_results
             stop == (results # <<>> /\ enough_results(acc))
                     \/ src_idx = Len(search_sources)
         IN
         /\ all_results' = acc
         /\ s_log' = Append(s_log, [source |-> search_sources[src_idx],
                                    outcome |-> out.kind,
                                    raw |-> out.raw,
                                    request |-> issues_request(
                                                  search_sources[src_idx], out),
                                    returned |-> Len(results),
                                    before |-> Len(all_results),
                                    after |-> Len(acc)])
         /\ IF stop
            THEN /\ s_ret' = final_results(acc)
                 /\ s_pc' = "done"
                 /\ UNCHANGED src_idx
            ELSE /\ src_idx' = src_idx + 1
                 /\ UNCHANGED <<s_ret, s_pc>>
    /\ UNCHANGED <<s_agent, attempt, wait_time, sleeps, orchVars, routerVars, synthVars,
                 storeVars, fileVars,
                   agentVars>>

SearchInit ==
    /\ s_pc = "try"
    /\ s_agent \in {"WebSearchAgent", "EnhancedWebSearchAgent"}
    /\ attempt = 0
    /\ wait_time = IF s_agent = "WebSearchAgent" THEN initial_wait ELSE 0
    /\ sleeps = <<>>
    /\ src_idx = IF s_agent = "EnhancedWebSearchAgent" THEN 1 ELSE 0
    /\ all_results = <<>>
    /\ s_log = <<>>
    /\ s_ret = None
    /\ OrchIdle
    /\ RouterIdle
    /\ SynthIdle
    /\ StoreIdle
    /\ FilesIdle
    /\ AgentIdle

SearchNext ==
    \/ web_search_attempt
    \/ enhanced_try_source

SpecSearch == SearchInit /\ [][SearchNext]_vars

-----------------------------------------------------------------------------
(* Search properties *)

SearchDone == s_pc = "done"

\* Every backend invocation of the finished search raised.
EveryAttemptFailed ==
    /\ s_log # <<>>
    /\ \A i \in 1..Len(s_log) : s_log[i].outcome \in {"ratelimit", "error"}

\* C8: when every backend attempt of a search fails, by retry exhaustion or by
\* an immediate backend error, search() returns a list whose only entry is one
\* synthetic entry flagged error = true.
C8_AllFailedGivesErrorEntry ==
    (SearchDone /\ EveryAttemptFailed) =>
        /\ Len(s_ret) = 1
        /\ s_ret[1].error

\* C9: EnhancedWebSearchAgent.search invokes the backends in their fixed
\* order without skipping or reordering; a backend that fails or returns
\* nothing leaves the accumulated list unchanged and the next one is tried;
\* no backend is invoked once the accumulated count has reached max_results.
C9_BackendChainOrder ==
    s_agent = "EnhancedWebSearchAgent" =>
        /\ Len(s_log) <= Len(search_sources)
        /\ \A i \in 1..Len(s_log) :
             /\ s_log[i].source = search_sources[i]
             /\ (s_log[i].outcome # "ok" \/ s_log[i].returned = 0)
                  => s_log[i].after = s_log[i].before
             /\ i < Len(s_log) =>
                  /\ s_log[i].after < max_results
                  /\ s_log[i + 1].before = s_log[i].after
        /\ SearchDone =>
             \/ Len(s_log) = Len(search_sources)
             \/ s_log[Len(s_log)].after >= max_results

C9_Witness ==
    /\ s_agent = "EnhancedWebSearchAgent"
    /\ SearchDone
    /\ Len(s_log) = 3
    /\ s_log[1].outcome = "error"
    /\ s_log[2].returned = 2
    /\ s_log[3].after = max_results

LastOutcome == s_log[Len(s_log)].outcome

ExponentialWaits ==
    \A n \in 1..Len(sleeps) : sleeps[n] = initial_wait * 2^(n - 1)

ConfiguredLog == SelectSeq(s_log, LAMBDA e : e.outcome # "no_key")

\* What the source loop returns when run over the given invocations alone.
RECURSIVE chain_result(_, _)
chain_result(entries, acc) ==
    IF entries = <<>> THEN final_results(acc)
    ELSE LET e == Head(entries)
             results == search_func(e.source, [kind |-> e.outcome, raw |-> e.raw])
             acc2 == IF results # <<>> THEN acc \o results ELSE acc
         IN IF results # <<>> /\ enough_results(acc2)
            THEN final_results(acc2)
            ELSE chain_result(Tail(entries), acc2)

\* C11: in EnhancedWebSearchAgent.search a backend whose credentials are not
\* configured issues no outbound request, is invoked once and never again,
\* uses no retry attempt and no wait, contributes nothing to the accumulated
\* list, and is followed by the next backend; the returned list is the one
\* the chain gives without that backend in it.
C11_UnconfiguredBackendSkipped ==
    s_agent = "EnhancedWebSearchAgent" =>
        /\ attempt = 0
        /\ sleeps = <<>>
        /\ \A i \in 1..Len(s_log) :
             s_log[i].outcome = "no_key" =>
                /\ ~s_log[i].request
                /\ s_log[i].returned = 0
                /\ s_log[i].after = s_log[i].before
                /\ \A j \in 1..Len(s_log) :
                     s_log[j].source = s_log[i].source => j = i
                /\ (i < Len(search_sources) /\ SearchDone) =>
                     /\ i < Len(s_log)
                     /\ s_log[i + 1].source = search_sources[i + 1]
        /\ SearchDone => s_ret = chain_result(ConfiguredLog, <<>>)

C11_Witness ==
    /\ s_agent = "EnhancedWebSearchAgent"
    /\ SearchDone
    /\ Len(s_log) = 4
    /\ s_log[1].outcome = "ok" /\ s_log[1].returned = 2
    /\ s_log[2].outcome = "no_key" /\ ~s_log[2].request
    /\ s_log[3].outcome = "ok" /\ s_log[3].returned = 1
    /\ s_log[4].outcome = "no_key"
    /\ Len(s_ret) = 2

\* The entry at position i is the first one of the list with its url, or has
\* no url.
FirstOccurrence(seq, i) ==
    \/ seq[i].url = ""
    \/ \A j \in 1..(i - 1) : seq[j].url # seq[i].url

RECURSIVE KeptFrom(_, _)
KeptFrom(seq, i) ==
    IF i > Len(seq) THEN <<>>
    ELSE (IF FirstOccurrence(seq, i) THEN <<seq[i]>> ELSE <<>>)
         \o KeptFrom(seq, i + 1)

\* C12: in the list EnhancedWebSearchAgent.search returns no two entries have
\* the same non-empty url; of the accumulated results with one non-empty url,
\* from one backend or from several, only the first is kept, the kept entries
\* stay in accumulation order, and entries with an empty url are all kept
\* (up to the cut at max_results).
C12_DedupByUrl ==
    (s_agent = "EnhancedWebSearchAgent" /\ SearchDone) =>
        /\ \A i, j \in 1..Len(s_ret) :
             (i < j /\ s_ret[i].url # "") => s_ret[i].url # s_ret[j].url
        /\ s_ret = Take(KeptFrom(all_results, 1), max_results)

C12_Witness ==
    /\ s_agent = "EnhancedWebSearchAgent"
    /\ SearchDone
    /\ \E i, j \in 1..Len(all_results) :
         /\ i < j
         /\ all_results[i].url = all_results[j].url
         /\ all_results[i].url # ""
         /\ all_results[i].source # all_results[j].source
    /\ \E i, j \in 1..Len(all_results) :
         /\ i < j
         /\ all_results[i].url = all_results[j].url
         /\ all_results[i].url # ""
         /\ all_results[i].source = all_results[j].source
    /\ \E i, j \in 1..Len(s_ret) :
         i < j /\ s_ret[i].url = "" /\ s_ret[j].url = ""
    /\ Len(s_ret) < Len(all_results)

-----------------------------------------------------------------------------
(* Outcomes of the collaborator calls made by the workflow nodes.  Each     *)
(* node wraps its call in try/except, so an outcome is either a returned    *)
(* value or an exception.                                                   *)

\* self.router.classify_query(query, has_files): a (choice, reasoning) tuple,
\* or an exception.  "UNKNOWN" stands for any string outside ValidChoices.
RouterOutcomes ==
    { [exc |-> FALSE, choice |-> c] : c \in ValidChoices \cup {"UNKNOWN"} }
    \cup { [exc |-> TRUE, choice |-> ""] }

\* self.web_agent.process_query(query): one of its four result kinds, or an
\* exception.
WebOutcomes ==
    { [exc |-> FALSE, search_type |-> k, results |-> n] :
        k \in {"llm", "llm_fallback", "error"}, n \in {0} }
    \cup { [exc |-> FALSE, search_type |-> "web", results |-> n] : n \in 1..MaxHits }
    \cup { [exc |-> TRUE, search_type |-> "", results |-> 0] }

\* self.file_agent.process_files(file_paths, query): a result dict whose
\* search_results holds n chunks, or an exception.
FileOutcomes ==
    { [exc |-> FALSE, search_results |-> n] : n \in 0..MaxHits }
    \cup { [exc |-> TRUE, search_results |-> 0] }

\* self.synthesizer.synthesize_response(...): a response dict produced by one
\* of its three synthesis methods (the third carries 'error'), or an exception.
SynthOutcomes ==
    { [exc |-> FALSE, synthesis_method |-> m] :
        m \in {"gemini_llm", "simple_text_fallback", "error_fallback"} }
    \cup { [exc |-> TRUE, synthesis_method |-> ""] }

-----------------------------------------------------------------------------
(* Conditional-edge functions *)

route_decision(choice) ==
    IF choice = "error" THEN "error"
    ELSE IF choice = "WEB_SEARCH" THEN "web_search"
    ELSE IF choice = "FILE_ANALYSIS" THEN "file_analysis"
    ELSE IF choice = "BOTH" THEN "both"
    ELSE "error"

\* Variant: the BOTH route is not chained to file analysis.
after_web_search_never_chains(choice) == "synthesizer"

after_web_search(choice) ==
    IF choice = "BOTH" THEN "file_analysis" ELSE "synthesizer"

after_file_analysis(choice) == "synthesizer"

\* Variant: the "both" label is mapped to a node that was never added.
router_edges_both_unmapped(label) ==
    CASE label = "web_search"    -> "web_search"
      [] label = "file_analysis" -> "file_analysis"
      [] label = "both"          -> "both"
      [] label = "error"         -> "END"

\* Edge maps given to add_conditional_edges / add_edge in _build_workflow.
router_edges(label) ==
    CASE label = "web_search"    -> "web_search"
      [] label = "file_analysis" -> "file_analysis"
      [] label = "both"          -> "web_search"
      [] label = "error"         -> "END"

web_search_edges(label) ==
    CASE label = "synthesizer"   -> "synthesizer"
      [] label = "file_analysis" -> "file_analysis"
      [] label = "end"           -> "END"

file_analysis_edges(label) ==
    CASE label = "synthesizer"   -> "synthesizer"
      [] label = "end"           -> "END"

synthesizer_edge == "END"

-----------------------------------------------------------------------------
(* Node bodies: the value each node stores for a collaborator outcome *)

\* _router_node: <<agent_choice, error>> written to the state.
router_node_state(out) ==
    IF out.exc
    THEN [agent_choice |-> "error", error |-> "Router error"]
    ELSE [agent_choice |-> out.choice, error |-> "None"]

\* Variant: the except branch stores a dict without the 'error' key.
web_search_node_state_no_error_key(out) ==
    IF out.exc
    THEN [tag |-> "dict", error |-> FALSE, search_type |-> "", results |-> 0]
    ELSE [tag |-> "dict", error |-> FALSE,
          search_type |-> out.search_type, results |-> out.results]

\* _web_search_node: state['web_results'].
web_search_node_state(out) ==
    IF out.exc
    THEN [tag |-> "dict", error |-> TRUE, search_type |-> "", results |-> 0]
    ELSE [tag |-> "dict", error |-> FALSE,
          search_type |-> out.search_type, results |-> out.results]

\* _file_analysis_node: state['file_results'].
file_analysis_node_state(nfiles, out) ==
    IF nfiles > 0
    THEN IF out.exc
         THEN [tag |-> "dict", error |-> TRUE, files_processed |-> 0,
               search_results |-> 0]
         ELSE [tag |-> "dict", error |-> FALSE, files_processed |-> nfiles,
               search_results |-> out.search_results]
    ELSE [tag |-> "dict", error |-> FALSE, files_processed |-> 0,
          search_results |-> 0]

\* _synthesizer_node: state['final_response'].
synthesizer_node_state(out) ==
    IF out.exc
    THEN [tag |-> "dict", error |-> TRUE, synthesis_method |-> "",
          confidence_zero |-> TRUE]
    ELSE [tag |-> "dict", error |-> (out.synthesis_method = "error_fallback"),
          synthesis_method |-> out.synthesis_method,
          confidence_zero |-> (out.synthesis_method = "error_fallback")]

-----------------------------------------------------------------------------
(* Workflow actions *)

OrchInit ==
    /\ node = "router"
    /\ trace = <<>>
    /\ file_paths \in 0..MaxFiles
    /\ agent_choice = ""
    /\ state_error = "None"
    /\ web_results = None
    /\ file_results = None
    /\ final_response = None
    /\ raised = {}
    /\ result = None
    /\ RouterIdle
    /\ SearchIdle
    /\ SynthIdle
    /\ StoreIdle
    /\ FilesIdle
    /\ AgentIdle

router_node ==
    /\ node = "router"
    /\ \E out \in RouterOutcomes :
         LET s == router_node_state(out) IN
         /\ agent_choice' = s.agent_choice
         /\ state_error' = s.error
         /\ raised' = IF out.exc THEN raised \cup {"router"} ELSE raised
         /\ node' = router_edges(route_decision(s.agent_choice))
    /\ trace' = Append(trace, "router")
    /\ UNCHANGED <<file_paths, web_results, file_results, final_response, result,
                   routerVars, searchVars, synthVars,
                   storeVars, fileVars,
                   agentVars>>

web_search_node ==
    /\ node = "web_search"
    /\ \E out \in WebOutcomes :
         /\ web_results' = web_search_node_state(out)
         /\ raised' = IF out.exc THEN raised \cup {"web_search"} ELSE raised
    /\ node' = web_search_edges(after_web_search(agent_choice))
    /\ trace' = Append(trace, "web_search")
    /\ UNCHANGED <<file_paths, agent_choice, state_error, file_results,
                   final_response, result, routerVars, searchVars, synthVars,
                   storeVars, fileVars,
                   agentVars>>

file_analysis_node ==
    /\ node = "file_analysis"
    /\ \E out \in FileOutcomes :
         /\ file_results' = file_analysis_node_state(file_paths, out)
         /\ raised' = IF out.exc /\ file_paths > 0
                      THEN raised \cup {"file_analysis"} ELSE raised
    /\ node' = file_analysis_edges(after_file_analysis(agent_choice))
    /\ trace' = Append(trace, "file_analysis")
    /\ UNCHANGED <<file_paths, agent_choice, state_error, web_results,
                   final_response, result, routerVars, searchVars, synthVars,
                   storeVars, fileVars,
                   agentVars>>

synthesizer_node ==
    /\ node = "synthesizer"
    /\ \E out \in SynthOutcomes :
         /\ final_response' = synthesizer_node_state(out)
         /\ raised' = IF out.exc THEN raised \cup {"synthesizer"} ELSE raised
    /\ node' = synthesizer_edge
    /\ trace' = Append(trace, "synthesizer")
    /\ UNCHANGED <<file_paths, agent_choice, state_error, web_results,
                   file_results, result, routerVars, searchVars, synthVars,
                   storeVars, fileVars,
                   agentVars>>

\* process_query: the dict built from the final state once invoke() returns.
process_query_result ==
    [tag |-> "dict",
     agent_choice |-> agent_choice,
     final_response |-> final_response,
     web_results |-> web_results,
     file_results |-> file_results,
     error |-> state_error]

process_query ==
    /\ node = "END"
    /\ result' = process_query_result
    /\ node' = "returned"
    /\ UNCHANGED <<trace, file_paths, agent_choice, state_error, web_results,
                   file_results, final_response, raised, routerVars, searchVars, synthVars,
                   storeVars, fileVars,
                   agentVars>>

OrchNext ==
    \/ router_node
    \/ web_search_node
    \/ file_analysis_node
    \/ synthesizer_node
    \/ process_query

Spec == OrchInit /\ [][OrchNext]_vars

\* workflow.invoke runs the node the last edge led to for as long as there is
\* one, and process_query returns once invoke has.
SpecFair == OrchInit /\ [][OrchNext]_vars /\ WF_vars(OrchNext)

-----------------------------------------------------------------------------
(* Orchestrator properties *)

IsPrefix(s, t) ==
    /\ Len(s) <= Len(t)
    /\ \A i \in 1..Len(s) : s[i] = t[i]

ExpectedOrder(choice) ==
    CASE choice = "WEB_SEARCH"    -> <<"router", "web_search", "synthesizer">>
      [] choice = "FILE_ANALYSIS" -> <<"router", "file_analysis", "synthesizer">>
      [] choice = "BOTH"          -> <<"router", "web_search", "file_analysis",
                                       "synthesizer">>

Finished == node \in {"END", "returned"}

\* C1: for a router choice of WEB_SEARCH, FILE_ANALYSIS or BOTH the nodes run
\* in exactly the order router, [web_search], [file_analysis], synthesizer:
\* at every moment the executed nodes are a prefix of that order (so no node
\* runs twice and the handlers run one after the other), the whole order has
\* run when the workflow ends, an unselected handler's result stays None, and
\* the synthesizer has run only if every selected handler has stored a result.
C1_NodeOrder ==
    agent_choice \in ValidChoices =>
        /\ IsPrefix(trace, ExpectedOrder(agent_choice))
        /\ Finished => trace = ExpectedOrder(agent_choice)
        /\ agent_choice = "WEB_SEARCH" => file_results = None
        /\ agent_choice = "FILE_ANALYSIS" => web_results = None
        /\ final_response # None =>
             /\ agent_choice \in {"WEB_SEARCH", "BOTH"} => web_results # None
             /\ agent_choice \in {"FILE_ANALYSIS", "BOTH"} => file_results # None

C1_Witness ==
    /\ node = "returned"
    /\ agent_choice = "BOTH"
    /\ trace = <<"router", "web_search", "file_analysis", "synthesizer">>
    /\ file_results # None /\ web_results # None

\* C2: whichever of the web-search handler, the file-analysis handler and the
\* synthesizer raise after a successful routing, process_query returns a
\* result dict, every stage of the route has run up to END, final_response is
\* a dict, and the result of each stage that raised carries an 'error' field.
C2_FailuresFolded ==
    (node = "returned" /\ agent_choice \in ValidChoices) =>
        /\ result.tag = "dict"
        /\ trace = ExpectedOrder(agent_choice)
        /\ result.final_response.tag = "dict"
        /\ "web_search" \in raised => result.web_results.error
        /\ "file_analysis" \in raised => result.file_results.error
        /\ "synthesizer" \in raised => result.final_response.error

C2_Witness ==
    /\ node = "returned"
    /\ raised = {"web_search", "file_analysis", "synthesizer"}
    /\ result.final_response.tag = "dict"

RouterFailed == route_decision(agent_choice) = "error"

-----------------------------------------------------------------------------
(* ResponseSynthesizer (src/agents/synthesizer.py) *)

\* A str literal as a sequence of one-character strings.
Chars(s) == [i \in 1..Len(s) |-> SubSeq(s, i, i)]

\* sep.join(parts)
RECURSIVE Join(_, _)
Join(parts, sep) ==
    IF parts = <<>> THEN <<>>
    ELSE IF Len(parts) = 1 THEN parts[1]
    ELSE parts[1] \o sep \o Join(Tail(parts), sep)

\* s.split('\n')
RECURSIVE SplitLines(_)
SplitLines(s) ==
    IF HasMoreLines(s) THEN <<FirstLine(s)>> \o SplitLines(RestLines(s))
    ELSE <<s>>

\* s.startswith(prefix)
StartsWith(s, prefix) ==
    /\ Len(prefix) <= Len(s)
    /\ SubSeq(s, 1, Len(prefix)) = prefix

\* The concatenation of a sequence of lists.
RECURSIVE Flatten(_)
Flatten(lists) ==
    IF lists = <<>> THEN <<>> ELSE Head(lists) \o Flatten(Tail(lists))

Digits == <<"0", "1", "2", "3", "4", "5", "6", "7", "8", "9">>

\* str(n) of an int n >= 0, as f"{n}" renders it.
RECURSIVE Str(_)
Str(n) ==
    IF n < 10 THEN <<Digits[n + 1]>>
    ELSE Str(n \div 10) \o <<Digits[(n % 10) + 1]>>

\* A float is kept as the exact fraction num/den, den > 0.
Rat(n, d) == [num |-> n, den |-> d]

RatAdd(a, b) == Rat(a.num * b.den + b.num * a.den, a.den * b.den)

RatMul(a, b) == Rat(a.num * b.num, a.den * b.den)

RatLess(a, b) == a.num * b.den < b.num * a.den

RatEq(a, b) == a.num * b.den = b.num * a.den

\* sum(...) over a list of floats
RECURSIVE RatSum(_)
RatSum(xs) ==
    IF xs = <<>> THEN Rat(0, 1) ELSE RatAdd(Head(xs), RatSum(Tail(xs)))

\* f"{x:.3f}" of a float x >= 0
Fmt3(x) ==
    LET t == (2000 * x.num + x.den) \div (2 * x.den)
        frac == t % 1000
    IN Str(t \div 1000) \o <<".">>
       \o <<Digits[(frac \div 100) + 1], Digits[((frac \div 10) % 10) + 1],
            Digits[(frac % 10) + 1]>>

\* os.path.basename(path)
Basename(path) ==
    LET slashes == {i \in 1..Len(path) : path[i] = "/"} IN
    IF slashes = {} THEN path
    ELSE SubSeq(path, (CHOOSE i \in slashes : \A j \in slashes : j <= i) + 1,
                Len(path))

\* s[:100] + '...' if len(s) > 100 else s
snippet_100(s) ==
    IF Len(s) > 100 THEN SubSeq(s, 1, 100) \o Chars("...") ELSE s

\* Bound: largest number of retrieved chunks in a file_results argument.
MaxChunks == 2

\* Query texts synthesize_response is exercised on.
SynthQueries == { Chars("latest news") }

\* Entries of a 'results' list: two ordinary results, the entry search() makes
\* of a str answer (no url), and the "Search Error" entry.
result_a ==
    [title |-> Chars("A"), url |-> Chars("http://a"),
     snippet |-> Chars("latest news about a, in full"), error |-> FALSE]

result_b ==
    [title |-> Chars("B"), url |-> Chars("http://b"),
     snippet |-> Chars("short b"), error |-> FALSE]

result_nourl ==
    [title |-> Chars("Result"), url |-> <<>>,
     snippet |-> Chars("raw text of the latest news"), error |-> FALSE]

result_error ==
    [title |-> Chars("Search Error"), url |-> <<>>,
     snippet |-> Chars("Unable to perform web search after retries due to rate-limiting."),
     error |-> TRUE]

\* The only key fact of the 'error' result of WebSearchAgent.process_query.
apology_fact ==
    Chars("I apologize, but I'm unable to process your query at the moment. Please try again later.")

\* Text of the exception an LLM or handler call raises.
exception_text == Chars("503 Service Unavailable")

\* A web_results dict; confidence = None stands for an extracted_info without
\* the 'confidence' key.
WebDict(results, summary, key_facts, confidence, has_error) ==
    [results |-> results,
     extracted_info |-> [summary |-> summary, key_facts |-> key_facts,
                         confidence |-> confidence],
     has_error |-> has_error]

\* The dict _web_search_node stores when process_query raises.
web_node_error ==
    WebDict(<<>>, Chars("Web search failed: ") \o exception_text, <<>>, None, TRUE)

\* The four result kinds of WebSearchAgent.process_query.
web_kind_llm ==
    WebDict(<<>>, Chars("Answer retrieved from Gemini LLM"),
            <<Chars("An answer of the model, longer than twenty characters.")>>,
            Rat(9, 10), FALSE)

web_kind_llm_fallback ==
    WebDict(<<>>, Chars("Answer retrieved from Gemini LLM (web search failed)"),
            <<Chars("Short answer")>>, Rat(7, 10), FALSE)

web_kind_error ==
    WebDict(<<>>, Chars("Unable to process query - all methods failed"),
            <<apology_fact>>, Rat(0, 1), FALSE)

\* Values of the web_results argument: None, the 'web' kind with one and with
\* three results, extract_key_information over [] and over the error entry
\* alone, the other three kinds, and the node's error dict.
WebResultsPool ==
    { None,
      WebDict(<<result_a>>,
              Chars("Found 1 relevant sources for 'latest news'"),
              <<result_a.snippet>>, Rat(1, 3), FALSE),
      WebDict(<<result_a, result_nourl, result_b>>,
              Chars("Found 3 relevant sources for 'latest news'"),
              <<result_a.snippet, result_nourl.snippet>>, Rat(3, 3), FALSE),
      WebDict(<<>>, Chars("No search results found"), <<>>, Rat(0, 1), FALSE),
      WebDict(<<result_error>>,
              Chars("Found 0 relevant sources for 'latest news'"),
              <<>>, Rat(0, 1), FALSE),
      web_kind_llm,
      web_kind_llm_fallback,
      web_kind_error,
      web_node_error }

\* similarity_score values: keyword-match ratios and FAISS distances, which
\* are not bounded by 1.
Scores == { Rat(0, 1), Rat(1, 2), Rat(1, 1), Rat(3, 2) }

ScoreLists == UNION { [1..n -> Scores] : n \in 1..MaxChunks }

\* One entry of 'search_results'.
file_hit(i, score) ==
    [content |-> Chars("chunk ") \o Str(i) \o Chars(" of the report text"),
     file_path |-> Chars("/tmp/report.txt"),
     similarity_score |-> score]

\* One entry of 'processing_results'.
ProcessingResult(path, success, file_type, error) ==
    [file_path |-> path, success |-> success, file_type |-> file_type,
     page_count |-> 2, rows |-> 3, columns |-> 4,
     image_size |-> Chars("(8, 8)"), error |-> error]

\* A file_results dict.
FileDict(n_files, n_chunks, hits, processing_results, has_error) ==
    [files_processed |-> n_files, total_chunks |-> n_chunks,
     search_results |-> hits,
     processing_results |-> processing_results, has_error |-> has_error]

\* The dict _file_analysis_node stores when process_files raises.
file_node_error == FileDict(0, 0, <<>>, <<>>, TRUE)

\* Values of the file_results argument: None, the node's dict for no files,
\* the node's error dict, files that gave no text, files with chunks but no
\* retrieved chunk, and files with retrieved chunks.
FileResultsPool ==
    { None,
      FileDict(0, 0, <<>>, <<>>, FALSE),
      file_node_error,
      FileDict(2, 0, <<>>,
               << ProcessingResult(Chars("/tmp/missing.txt"), FALSE, <<>>,
                                   Chars("File not found: /tmp/missing.txt")),
                  ProcessingResult(Chars("/tmp/scan.pdf"), TRUE, Chars("pdf"),
                                   <<>>) >>,
               FALSE),
      FileDict(1, 2, <<>>,
               << ProcessingResult(Chars("/tmp/report.txt"), TRUE,
                                   Chars("text"), <<>>) >>,
               FALSE) }
    \cup
    { FileDict(1, MaxChunks,
               [i \in 1..Len(scores) |-> file_hit(i, scores[i])],
               << ProcessingResult(Chars("/tmp/report.txt"), TRUE,
                                   Chars("text"), <<>>) >>,
               FALSE) : scores \in ScoreLists }

\* What the synthesizer's LLM does: there is none (import failed), invoke
\* returns a message with the given content, or invoke raises.
SynthLLMOutcomes ==
    { [kind |-> "unavailable", content |-> <<>>],
      [kind |-> "raises", content |-> exception_text] }
    \cup { [kind |-> "reply", content |-> c] :
             c \in { Chars("The latest news is that all is well."),
                     Chars("  ok \n"),
                     <<>>,
                     Chars(" \n\t ") } }

\* format_web_search_context(web_results)
format_web_search_context(web) ==
    IF web = None \/ web.results = <<>>
    THEN Chars("No web search results available.")
    ELSE LET info == web.extracted_info
             facts == [i \in 1..Len(info.key_facts) |->
                          Str(i) \o Chars(". ") \o info.key_facts[i]]
             info_parts ==
                 <<Chars("Summary: ") \o info.summary>>
                 \o (IF info.key_facts # <<>>
                     THEN <<Chars("Key Facts:")>> \o facts ELSE <<>>)
             top == Take(web.results, 3)
             result_parts ==
                 [i \in 1..Len(top) |->
                     IF top[i].error THEN <<>>
                     ELSE << Chars("\nSource: ") \o top[i].title,
                             Chars("URL: ") \o top[i].url,
                             Chars("Content: ") \o top[i].snippet >>]
         IN Join(<<Chars("=== WEB SEARCH RESULTS ===")>> \o info_parts
                 \o Flatten(result_parts), <<"\n">>)

\* The context lines format_file_analysis_context gives one processing result.
processing_result_parts(r) ==
    IF r.success
    THEN << Chars("\nFile: ") \o r.file_path,
            Chars("Type: ") \o r.file_type >>
         \o (IF r.file_type = Chars("pdf")
             THEN <<Chars("Pages: ") \o Str(r.page_count)>>
             ELSE IF r.file_type = Chars("tabular")
             THEN <<Chars("Data: ") \o Str(r.rows) \o Chars(" rows, ")
                    \o Str(r.columns) \o Chars(" columns")>>
             ELSE IF r.file_type = Chars("image")
             THEN <<Chars("Image size: ") \o r.image_size>>
             ELSE <<>>)
    ELSE << Chars("\nFile: ") \o r.file_path \o Chars(" - Error: ")
            \o r.error >>

\* format_file_analysis_context(file_results)
format_file_analysis_context(file) ==
    IF file = None THEN Chars("No file analysis results available.")
    ELSE LET hits == file.search_results
             hit_parts ==
                 [i \in 1..Len(hits) |->
                     << Chars("\n") \o Str(i) \o Chars(". Similarity Score: ")
                        \o Fmt3(hits[i].similarity_score),
                        Chars("Source: ") \o hits[i].file_path,
                        Chars("Content: ") \o hits[i].content >>]
             proc_parts ==
                 [i \in 1..Len(file.processing_results) |->
                     processing_result_parts(file.processing_results[i])]
         IN Join(<< Chars("=== FILE ANALYSIS RESULTS ==="),
                    Chars("Files processed: ") \o Str(file.files_processed),
                    Chars("Text chunks created: ") \o Str(file.total_chunks) >>
                 \o (IF hits # <<>>
                     THEN <<Chars("\nRelevant content from files:")>>
                          \o Flatten(hit_parts)
                     ELSE Flatten(proc_parts)),
                 <<"\n">>)

\* combine_contexts(web_results, file_results)
combine_contexts(web, file) ==
    LET contexts ==
            (IF web # None THEN <<format_web_search_context(web)>> ELSE <<>>)
            \o (IF file # None THEN <<format_file_analysis_context(file)>>
                ELSE <<>>)
    IN IF contexts = <<>> THEN Chars("No context available from any agent.")
       ELSE Join(contexts, <<"\n", "\n">>)

\* The key_info list of _simple_text_synthesis.
key_info(context) ==
    LET lines == SplitLines(context)
        stripped == [i \in 1..Len(lines) |-> Strip(lines[i])]
    IN SelectSeq(stripped,
                 LAMBDA line :
                     /\ line # <<>>
                     /\ ~StartsWith(line, Chars("==="))
                     /\ ~StartsWith(line, Chars("Source:"))
                     /\ ~StartsWith(line, Chars("URL:"))
                     /\ Len(line) > 20)

\* _simple_text_synthesis(query, context)
simple_text_synthesis(query, context) ==
    LET info == key_info(context)
        top == Take(info, 5)
        numbered == [i \in 1..Len(top) |->
                        Str(i) \o Chars(". ") \o top[i] \o <<"\n">>]
    IN IF info # <<>>
       THEN Chars("Based on the available information:\n\n")
            \o Flatten(numbered)
            \o (IF Len(info) > 5
                THEN Chars("\n... and ") \o Str(Len(info) - 5)
                     \o Chars(" more pieces of information.")
                ELSE <<>>)
       ELSE Chars("I found some information related to your query '")
            \o query
            \o Chars("', but I'm unable to provide a detailed synthesis at the moment. The raw information is available in the context.")

\* web_results.get('extracted_info', {}).get('confidence', 0.0)
web_confidence(web) ==
    IF web.extracted_info.confidence = None THEN Rat(0, 1)
    ELSE web.extracted_info.confidence

\* Variant: the sum is returned without the min(1.0, ...) cap.
calculate_confidence_uncapped(web, file) ==
    LET web_term == IF web # None
                    THEN RatMul(web_confidence(web), Rat(6, 10))
                    ELSE Rat(0, 1)
        scores == IF file # None
                  THEN [i \in 1..Len(file.search_results) |->
                           file.search_results[i].similarity_score]
                  ELSE <<>>
        file_term == IF scores # <<>>
                     THEN RatMul(RatMul(RatSum(scores), Rat(1, Len(scores))),
                                 Rat(4, 10))
                     ELSE Rat(0, 1)
    IN RatAdd(web_term, file_term)

\* _calculate_confidence(web_results, file_results)
calculate_confidence(web, file) ==
    LET web_term == IF web # None
                    THEN RatMul(web_confidence(web), Rat(6, 10))
                    ELSE Rat(0, 1)
        scores == IF file # None
                  THEN [i \in 1..Len(file.search_results) |->
                           file.search_results[i].similarity_score]
                  ELSE <<>>
        file_term == IF scores # <<>>
                     THEN RatMul(RatMul(RatSum(scores), Rat(1, Len(scores))),
                                 Rat(4, 10))
                     ELSE Rat(0, 1)
        confidence == RatAdd(web_term, file_term)
    IN IF RatLess(confidence, Rat(1, 1)) THEN confidence ELSE Rat(1, 1)

\* _extract_citations(web_results, file_results)
extract_citations(web, file) ==
    LET web_results_list == IF web # None THEN web.results ELSE <<>>
        cited == SelectSeq(web_results_list,
                           LAMBDA r : ~r.error /\ r.url # <<>>)
        hits == IF file # None THEN file.search_results ELSE <<>>
    IN [i \in 1..Len(cited) |->
           [type |-> "web", title |-> cited[i].title, url |-> cited[i].url,
            snippet |-> snippet_100(cited[i].snippet)]]
       \o
       [i \in 1..Len(hits) |->
           [type |-> "file",
            title |-> Chars("File: ") \o Basename(hits[i].file_path),
            url |-> hits[i].file_path,
            snippet |-> snippet_100(hits[i].content)]]

\* The dict of the except branch of synthesize_response.
synthesis_error_response(query, web, file, e) ==
    [query |-> query,
     answer |-> Chars("Error synthesizing response: ") \o e,
     context_used |-> <<>>,
     confidence |-> Rat(0, 1),
     citations |-> <<>>,
     sources |-> [web_search |-> web # None, file_analysis |-> file # None],
     synthesis_method |-> "error_fallback",
     has_error |-> TRUE,
     error |-> e]

\* synthesize_response(query, web_results, file_results)
synthesize_response(query, web, file, llm) ==
    LET context == combine_contexts(web, file) IN
    IF llm.kind = "raises"
    THEN synthesis_error_response(query, web, file, llm.content)
    ELSE [query |-> query,
          answer |-> IF llm.kind = "unavailable"
                     THEN simple_text_synthesis(query, context)
                     ELSE Strip(llm.content),
          context_used |-> context,
          confidence |-> calculate_confidence(web, file),
          citations |-> extract_citations(web, file),
          sources |-> [web_search |-> web # None,
                       file_analysis |-> file # None],
          synthesis_method |-> IF llm.kind = "unavailable"
                               THEN "simple_text_fallback" ELSE "gemini_llm",
          has_error |-> FALSE,
          error |-> <<>>]

SynthInit ==
    /\ y_pc = "call"
    /\ y_query \in SynthQueries
    /\ y_web \in WebResultsPool
    /\ y_file \in FileResultsPool
    /\ y_llm \in SynthLLMOutcomes
    /\ y_ret = None
    /\ OrchIdle
    /\ RouterIdle
    /\ SearchIdle
    /\ StoreIdle
    /\ FilesIdle
    /\ AgentIdle

CallSynthesizeResponse ==
    /\ y_pc = "call"
    /\ y_ret' = synthesize_response(y_query, y_web, y_file, y_llm)
    /\ y_pc' = "done"
    /\ UNCHANGED <<y_query, y_web, y_file, y_llm, orchVars, routerVars,
                   searchVars, storeVars, fileVars,
                   agentVars>>

SynthNext == CallSynthesizeResponse

SpecSynth == SynthInit /\ [][SynthNext]_vars

-----------------------------------------------------------------------------
(* Synthesizer properties *)

SynthDone == y_pc = "done"

\* The LLM call was not made or returned: the try block ran to its return.
SynthCompleted == SynthDone /\ ~y_ret.has_error

\* searchConfidence: 0 when the web results are absent.
SearchConfidence ==
    IF y_web = None \/ y_web.extracted_info.confidence = None THEN Rat(0, 1)
    ELSE y_web.extracted_info.confidence

RetrievedChunks == IF y_file = None THEN <<>> ELSE y_file.search_results

\* Average similarity of the retrieved chunks: 0 when the file results are
\* absent or hold no retrieved chunk.
AverageSimilarity ==
    IF RetrievedChunks = <<>> THEN Rat(0, 1)
    ELSE Rat(RatSum([i \in 1..Len(RetrievedChunks) |->
                        RetrievedChunks[i].similarity_score]).num,
             RatSum([i \in 1..Len(RetrievedChunks) |->
                        RetrievedChunks[i].similarity_score]).den
               * Len(RetrievedChunks))

\* 0.6 * searchConfidence + 0.4 * average similarity
WeightedSum ==
    RatAdd(RatMul(Rat(6, 10), SearchConfidence),
           RatMul(Rat(4, 10), AverageSimilarity))

InUnitInterval(x) == ~RatLess(x, Rat(0, 1)) /\ ~RatLess(Rat(1, 1), x)

ExpectedCitations ==
    LET cited == SelectSeq(IF y_web = None THEN <<>> ELSE y_web.results,
                           LAMBDA r : ~r.error /\ r.url # <<>>)
    IN [i \in 1..Len(cited) |-> [type |-> "web", url |-> cited[i].url]]
       \o [i \in 1..Len(RetrievedChunks) |->
              [type |-> "file", url |-> RetrievedChunks[i].file_path]]

\* C14: the citation list synthesize_response returns is fixed by web_results
\* and file_results alone, whatever the LLM does (any reply, or an
\* exception): one 'web' citation per non-error result with a non-empty url,
\* in result order, then one 'file' citation per retrieved chunk.
C14_CitationsIndependentOfLLM ==
    SynthDone =>
        /\ y_ret.citations = extract_citations(y_web, y_file)
        /\ [i \in 1..Len(y_ret.citations) |->
               [type |-> y_ret.citations[i].type,
                url |-> y_ret.citations[i].url]] = ExpectedCitations

\* C15: when the LLM call raises, synthesize_response returns (it does not
\* raise) and the answer is the extractive summary _simple_text_synthesis
\* gives for the combined context, not an error message.
C15_LLMRaiseGivesExtractiveSummary ==
    (SynthDone /\ y_llm.kind = "raises") =>
        /\ y_ret # None
        /\ y_ret.answer =
             simple_text_synthesis(y_query, combine_contexts(y_web, y_file))
        /\ ~StartsWith(y_ret.answer, Chars("Error"))

\* C16: the answer synthesize_response returns is a non-empty string for
\* every combination of inputs and LLM outcomes, an empty or whitespace-only
\* reply and a raising LLM included.
C16_AnswerNonEmpty ==
    SynthDone => y_ret.answer # <<>>

\* Every search method failed, no file chunk was retrieved, and the LLM call
\* of the synthesizer raised.
TotalFailure ==
    /\ y_web \in {web_kind_error, web_node_error}
    /\ RetrievedChunks = <<>>
    /\ y_llm.kind = "raises"

IsApology(text) ==
    \/ Contains(ToLower(text), Chars("apologize"))
    \/ Contains(ToLower(text), Chars("sorry"))

\* C17: on total failure the response has an apology as its answer, a
\* confidence of exactly 0.0 and no citation, and the answer does not carry
\* the text of the exception.
C17_TotalFailureApology ==
    (SynthDone /\ TotalFailure) =>
        /\ IsApology(y_ret.answer)
        /\ y_ret.confidence = Rat(0, 1)
        /\ y_ret.citations = <<>>
        /\ ~Contains(y_ret.answer, y_llm.content)

-----------------------------------------------------------------------------
(* VectorStoreManager (src/utils/vector_store.py) *)

\* Default of the k parameter of retrieve_relevant_docs.
default_k == 4

\* Bound: number of load_and_embed_file calls made on one manager.
MaxIngests == 2

\* Bound: number of retrieve_relevant_docs calls made on one manager.
MaxRetrievals == 1

\* Bound: number of remove_file calls made on one manager.
MaxRemovals == 2

\* File names the manager is called with.
FileNames == {"a.txt", "b.txt"}

\* What loader.load() returns: a list of documents, each given by its
\* page_content.  A whitespace-only document yields no chunk; an empty list
\* is a file nothing could be extracted from.
DocsPool ==
    { <<Chars("Alpha one. Alpha two.")>>,
      <<Chars("Beta page. "), Chars("More beta")>>,
      <<Chars(" \n ")>>,
      <<>> }

\* A dict without keys.
EmptyDict == [x \in {} |-> None]

\* d[key] = value
Put(d, key, value) ==
    [x \in DOMAIN d \cup {key} |-> IF x = key THEN value ELSE d[x]]

\* A value that is there, as opposed to None.
Some(v) == [value |-> v]

\* d.get(key): None for a missing key
Get(d, key) == IF key \in DOMAIN d THEN Some(d[key]) ELSE None

\* full_text = " ".join([doc.page_content for doc in docs])
full_text_of(docs) == Join(docs, <<" ">>)

\* text_splitter.split_documents(docs) for documents shorter than chunk_size:
\* one chunk per document, stripped, none for a document left empty.
split_documents(docs) ==
    SelectSeq([i \in 1..Len(docs) |-> Strip(docs[i])],
              LAMBDA chunk : chunk # <<>>)

\* FAISS.from_documents(splits, self.embeddings): an index over the chunks.
from_documents(splits) == [index_of |-> splits]

\* s.split(sep) for a non-empty separator
RECURSIVE SplitOn(_, _)
SplitOn(text, sep) ==
    LET hits == {i \in 1..(Len(text) - Len(sep) + 1) :
                    SubSeq(text, i, i + Len(sep) - 1) = sep}
    IN IF hits = {} THEN <<text>>
       ELSE LET at == CHOOSE i \in hits : \A j \in hits : i <= j
            IN <<SubSeq(text, 1, at - 1)>>
               \o SplitOn(SubSeq(text, at + Len(sep), Len(text)), sep)

\* s.split(): the maximal runs of non-whitespace characters
RECURSIVE Words(_)
Words(text) ==
    LET t == Strip(text)
        gaps == {i \in 1..Len(t) : t[i] \in Whitespace}
    IN IF t = <<>> THEN <<>>
       ELSE IF gaps = {} THEN <<t>>
       ELSE LET at == CHOOSE i \in gaps : \A j \in gaps : i <= j
            IN <<SubSeq(t, 1, at - 1)>> \o Words(SubSeq(t, at, Len(t)))

\* The keyword fallback of retrieve_relevant_docs: one document made of the
\* first k sentences that contain a word of the query.
fallback_retrieve(full_text, query, k) ==
    LET sentences == SplitOn(full_text, <<".", " ">>)
        words == Words(query)
        relevant ==
            SelectSeq(sentences,
                      LAMBDA sentence :
                          \E w \in 1..Len(words) :
                              Contains(ToLower(sentence), ToLower(words[w])))
    IN << [content |-> Join(Take(relevant, k), <<" ">>),
           source |-> "fallback"] >>

\* The orders in which a retriever may hand back the chunks of a list.
Orderings(chunks) ==
    { [i \in 1..Len(chunks) |-> chunks[p[i]]] :
        p \in { q \in [1..Len(chunks) -> 1..Len(chunks)] :
                  \A i, j \in 1..Len(chunks) : q[i] = q[j] => i = j } }

\* retriever.invoke(query) on an index with search_kwargs k: the k nearest
\* chunks; which ones and in which order is up to the embedding.
semantic_retrieve(store, k) ==
    { [i \in 1..Len(Take(o, k)) |-> [content |-> o[i], source |-> "faiss"]] :
        o \in Orderings(store.index_of) }

\* What is stored under a file name in the three maps.
Entry(name) ==
    [vector_store |-> Get(vector_stores, name),
     documents |-> Get(documents, name),
     fallback_text |-> Get(fallback_texts, name)]

\* Whether any of the three maps has the file name as a key.
has_data(name) ==
    \/ name \in DOMAIN vector_stores
    \/ name \in DOMAIN documents
    \/ name \in DOMAIN fallback_texts

\* dict.pop(key, None): the dict without the key, unchanged when it has none.
Pop(d, key) == [k \in DOMAIN d \ {key} |-> d[k]]

\* Records on a file name -> set map that an element belongs to the name.
AddTo(d, key, value) ==
    Put(d, key, (IF key \in DOMAIN d THEN d[key] ELSE {}) \cup {value})

\* The ingests of a name that have returned True so far.
CompletedFor(name) == IF name \in DOMAIN completed THEN completed[name] ELSE {}

StoreInit ==
    /\ vector_stores = EmptyDict
    /\ documents = EmptyDict
    /\ fallback_texts = EmptyDict
    /\ i_pc = "idle"
    /\ i_name = ""
    /\ i_docs = None
    /\ i_splits = <<>>
    /\ i_result = "none"
    /\ i_before = None
    /\ i_calls = 0
    /\ completed = EmptyDict
    /\ rt_pc = "idle"
    /\ rt_name = ""
    /\ rt_query = <<>>
    /\ rt_during = FALSE
    /\ rt_ret = None
    /\ rt_calls = 0
    /\ rm_repeated = FALSE
    /\ rm_calls = 0
    /\ removed = {}
    /\ OrchIdle
    /\ RouterIdle
    /\ SearchIdle
    /\ SynthIdle
    /\ FilesIdle
    /\ AgentIdle

\* load_and_embed_file up to the store of the fallback text: the loader is
\* chosen and run, and full_text is put into fallback_texts; an unsupported
\* type, a raising loader or an empty docs list ends the call with ValueError.
ingest_load ==
    /\ i_pc = "idle"
    /\ i_calls < MaxIngests
    /\ i_calls' = i_calls + 1
    /\ \E name \in FileNames, loaded \in BOOLEAN, docs \in DocsPool :
         /\ i_name' = name
         /\ i_before' = Entry(name)
         /\ i_splits' = <<>>
         /\ removed' = IF loaded /\ docs # <<>> THEN removed \ {name}
                        ELSE removed
         /\ IF loaded /\ docs # <<>>
            THEN /\ i_docs' = docs
                 /\ fallback_texts' = Put(fallback_texts, name, full_text_of(docs))
                 /\ i_pc' = "loaded"
                 /\ i_result' = "none"
            ELSE /\ i_docs' = None
                 /\ i_result' = "raised"
                 /\ UNCHANGED <<fallback_texts, i_pc>>
    /\ UNCHANGED <<vector_stores, documents, completed, rt_pc, rt_name,
                   rt_query, rt_during, rt_ret, rt_calls, rm_repeated, rm_calls, orchVars,
                   routerVars, searchVars, synthVars, fileVars,
                   agentVars>>

\* splits = text_splitter.split_documents(docs), which may raise.
ingest_split ==
    /\ i_pc = "loaded"
    /\ \E ok \in BOOLEAN :
         IF ok
         THEN /\ i_splits' = split_documents(i_docs)
              /\ i_pc' = "split"
              /\ UNCHANGED i_result
         ELSE /\ i_result' = "raised"
              /\ i_pc' = "idle"
              /\ UNCHANGED i_splits
    /\ UNCHANGED <<vector_stores, documents, fallback_texts, i_name, i_docs,
                   i_before, i_calls, completed, rt_pc, rt_name, rt_query,
                   rt_during, rt_ret, rt_calls, rm_repeated, rm_calls,
                   removed, orchVars, routerVars,
                   searchVars, synthVars, fileVars,
                   agentVars>>

\* The rest of load_and_embed_file: with splits the index is built (which may
\* raise) and stored with the chunk list; without splits nothing more is
\* stored; both ways the call returns True.
ingest_embed ==
    /\ i_pc = "split"
    /\ i_pc' = "idle"
    /\ \E ok \in BOOLEAN :
         IF i_splits # <<>> /\ ~ok
         THEN /\ i_result' = "raised"
              /\ UNCHANGED <<vector_stores, documents, completed, removed>>
         ELSE /\ i_result' = "True"
              /\ removed' = IF i_splits # <<>> THEN removed \ {i_name}
                             ELSE removed
              /\ completed' = AddTo(completed, i_name,
                                    [full_text |-> full_text_of(i_docs),
                                     splits |-> i_splits])
              /\ IF i_splits # <<>>
                 THEN /\ vector_stores' = Put(vector_stores, i_name,
                                              from_documents(i_splits))
                      /\ documents' = Put(documents, i_name, i_splits)
                 ELSE UNCHANGED <<vector_stores, documents>>
    /\ UNCHANGED <<fallback_texts, i_name, i_docs, i_splits, i_before,
                   i_calls, rt_pc, rt_name, rt_query, rt_during, rt_ret,
                   rt_calls, rm_repeated, rm_calls, orchVars, routerVars, searchVars, synthVars, fileVars,
                   agentVars>>

\* Queries retrieve_relevant_docs is called with.
RetrievalQueries == { Chars("alpha TWO"), Chars("beta") }

\* The membership test at the head of retrieve_relevant_docs.
retrieve_check ==
    /\ rt_pc \in {"idle", "done"}
    /\ rt_calls < MaxRetrievals
    /\ rt_calls' = rt_calls + 1
    /\ \E name \in FileNames, query \in RetrievalQueries :
         /\ rt_name' = name
         /\ rt_query' = query
         /\ rt_during' = FALSE
         /\ IF name \notin DOMAIN vector_stores
               /\ name \notin DOMAIN fallback_texts
            THEN /\ rt_ret' = [kind |-> "raised", docs |-> <<>>,
                                from_completed |-> FALSE,
                                stored |-> has_data(name),
                                removed |-> name \in removed]
                 /\ rt_pc' = "done"
            ELSE /\ rt_ret' = None
                 /\ rt_pc' = "checked"
    /\ UNCHANGED <<vector_stores, documents, fallback_texts, i_pc, i_name,
                   i_docs, i_splits, i_result, i_before, i_calls, completed,
                   rm_repeated, rm_calls, removed, orchVars, routerVars, searchVars, synthVars, fileVars,
                   agentVars>>

\* The try block of retrieve_relevant_docs: the index of the name is asked,
\* or, without one, the fallback text is searched by keyword; an exception
\* inside is raised again as ValueError.
retrieve_read ==
    /\ rt_pc = "checked"
    /\ rt_pc' = "done"
    /\ rt_during' = (i_pc # "idle" /\ i_name = rt_name)
    /\ IF rt_name \in DOMAIN vector_stores
       THEN \E ok \in BOOLEAN :
              IF ok
              THEN \E docs \in semantic_retrieve(vector_stores[rt_name],
                                                 default_k) :
                     rt_ret' = [kind |-> "semantic", docs |-> docs,
                                from_completed |->
                                    \E c \in CompletedFor(rt_name) :
                                        c.splits
                                          = vector_stores[rt_name].index_of,
                                stored |-> has_data(rt_name),
                                removed |-> rt_name \in removed]
              ELSE rt_ret' = [kind |-> "raised", docs |-> <<>>,
                              from_completed |-> FALSE,
                                stored |-> has_data(rt_name),
                                removed |-> rt_name \in removed]
       ELSE IF rt_name \in DOMAIN fallback_texts
       THEN rt_ret' = [kind |-> "fallback",
                       docs |-> fallback_retrieve(fallback_texts[rt_name],
                                                  rt_query, default_k),
                       from_completed |->
                           \E c \in CompletedFor(rt_name) :
                               c.full_text = fallback_texts[rt_name],
                       stored |-> has_data(rt_name),
                       removed |-> rt_name \in removed]
       ELSE rt_ret' = [kind |-> "raised", docs |-> <<>>,
                       from_completed |-> FALSE,
                                stored |-> has_data(rt_name),
                                removed |-> rt_name \in removed]
    /\ UNCHANGED <<vector_stores, documents, fallback_texts, i_pc, i_name,
                   i_docs, i_splits, i_result, i_before, i_calls, completed,
                   rt_name, rt_query, rt_calls, rm_repeated, rm_calls,
                   removed, orchVars, routerVars,
                   searchVars, synthVars, fileVars,
                   agentVars>>

\* Variant: the fallback text of the name is left in place.
remove_file_keeps_fallback_text(name) ==
    /\ vector_stores' = Pop(vector_stores, name)
    /\ documents' = Pop(documents, name)
    /\ UNCHANGED fallback_texts

\* The three pops of remove_file(file_name).
remove_file_pops(name) ==
    /\ vector_stores' = Pop(vector_stores, name)
    /\ documents' = Pop(documents, name)
    /\ fallback_texts' = Pop(fallback_texts, name)

\* remove_file(file_name), as the sidebar calls it for an uploaded file.
remove_file ==
    /\ rm_calls < MaxRemovals
    /\ rm_calls' = rm_calls + 1
    /\ \E name \in FileNames :
         /\ rm_repeated' = (name \in removed)
         /\ removed' = removed \cup {name}
         /\ remove_file_pops(name)
    /\ UNCHANGED <<i_pc, i_name, i_docs, i_splits, i_result, i_before, i_calls,
                   completed, rt_pc, rt_name, rt_query, rt_during, rt_ret,
                   rt_calls, orchVars, routerVars, searchVars, synthVars,
                   fileVars, agentVars>>

StoreNext ==
    \/ ingest_load
    \/ ingest_split
    \/ ingest_embed
    \/ retrieve_check
    \/ retrieve_read

SpecStore == StoreInit /\ [][StoreNext]_vars

\* A call of the manager is under way.  The script of src/app.py runs its
\* calls of the manager one after the other, in one thread.
CallInProgress == i_pc # "idle" \/ rt_pc = "checked"

\* The calls the script of src/app.py makes on its manager: the removal of an
\* uploaded file in the sidebar (42-50), the ingest of an upload and the
\* retrieval for a question, each begun when the one before has ended.
RemovalNext ==
    \/ ~CallInProgress /\ remove_file
    \/ ~CallInProgress /\ ingest_load
    \/ ingest_split
    \/ ingest_embed
    \/ ~CallInProgress /\ retrieve_check
    \/ retrieve_read

SpecRemoval == StoreInit /\ [][RemovalNext]_vars

-----------------------------------------------------------------------------
(* Vector store properties *)

IngestEnded == i_pc = "idle" /\ i_calls > 0

AbsentEntry ==
    [vector_store |-> None, documents |-> None, fallback_text |-> None]

\* The entry an ingest of the given documents builds from nothing.
BuiltEntry(docs) ==
    LET splits == split_documents(docs) IN
    [vector_store |-> IF splits # <<>> THEN Some(from_documents(splits))
                      ELSE None,
     documents |-> IF splits # <<>> THEN Some(splits) ELSE None,
     fallback_text |-> Some(full_text_of(docs))]

\* C18: after load_and_embed_file returns True for a file name that had
\* stored data, the vector store, chunk list and fallback text of the name
\* are those of the content just ingested and of nothing earlier (so that
\* repeating the ingest changes nothing), also when that content yields no
\* chunk.
C18_ReingestReplacesEntry ==
    (IngestEnded /\ i_result = "True" /\ i_before # AbsentEntry) =>
        Entry(i_name) = BuiltEntry(i_docs)

\* C19: after load_and_embed_file raises for a file name, whether in loading,
\* splitting or embedding, the name is absent from all three maps or has
\* exactly the entries it had before the call; and between calls the entry
\* of every name is either absent or completely built from one content.
C19_FailedIngestStoresNothing ==
    /\ (IngestEnded /\ i_result = "raised") =>
          Entry(i_name) \in {AbsentEntry, i_before}
    /\ i_pc = "idle" =>
          \A name \in FileNames :
              \/ Entry(name) = AbsentEntry
              \/ \E docs \in DocsPool \ {<<>>} : Entry(name) = BuiltEntry(docs)

\* C20: a retrieve_relevant_docs that reads the maps of a name while a
\* load_and_embed_file of that name is under way fails, and what any
\* retrieval returns was stored by one ingest that had returned True.
C20_IngestExcludesRetrieval ==
    (rt_pc = "done" /\ rt_ret.kind # "raised") =>
        /\ ~rt_during
        /\ rt_ret.from_completed

-----------------------------------------------------------------------------
(* Keyword retrieval of the vector store *)

\* The elements of a sequence.
Range(seq) == {seq[i] : i \in DOMAIN seq}

\* The distinct words of a query, compared without case.
DistinctQueryWords(query) == {ToLower(w) : w \in Range(Words(query))}

\* How many distinct query words occur in a chunk.
Matches(chunk, query) ==
    Cardinality({w \in DistinctQueryWords(query) : Contains(ToLower(chunk), w)})

\* The chunks of the content whose text is stored for keyword retrieval.
IngestedChunks(name) ==
    UNION { Range(split_documents(docs)) :
              docs \in {d \in DocsPool \ {<<>>} :
                          Some(full_text_of(d)) = Entry(name).fallback_text} }

\* C21: a retrieval answered without an embedding index returns at most k
\* entries, each of them an ingested chunk unchanged that contains at least
\* one distinct query word and carries its score, and no ingested chunk left
\* out contains more distinct query words than a returned one.
C21_KeywordFallbackRetrieval ==
    (rt_pc = "done" /\ rt_ret.kind = "fallback") =>
        /\ Len(rt_ret.docs) <= default_k
        /\ \A i \in DOMAIN rt_ret.docs :
              /\ rt_ret.docs[i].content \in IngestedChunks(rt_name)
              /\ Matches(rt_ret.docs[i].content, rt_query) > 0
              /\ "similarity_score" \in DOMAIN rt_ret.docs[i]
        /\ \A chunk \in IngestedChunks(rt_name) :
              \A i \in DOMAIN rt_ret.docs :
                  chunk \notin {rt_ret.docs[j].content : j \in DOMAIN rt_ret.docs}
                      => Matches(chunk, rt_query)
                            <= Matches(rt_ret.docs[i].content, rt_query)

-----------------------------------------------------------------------------
(* FileAnalysisAgent (src/agents/file_analysis_agent.py) *)

\* Bound: Config.CHUNK_SIZE, taken small enough for the texts below to be
\* cut into several chunks.
CHUNK_SIZE == 8

\* Default of the k parameter of search_documents and _simple_text_search.
search_k == 3

\* A path together with what the file system and the extraction libraries
\* give for it: whether it exists, whether its size exceeds
\* Config.MAX_FILE_SIZE, and what reading it yields: the text ("ok"), a
\* UnicodeDecodeError under utf-8 and the text under latin-1
\* ("decode_error"), or another exception ("raises").
File(path, exists, too_large, kind, text) ==
    [file_path |-> Chars(path), exists |-> exists, too_large |-> too_large,
     read |-> [kind |-> kind, text |-> Chars(text)]]

file_a == File("a.txt", TRUE, FALSE, "ok", "alpha beta")
file_b == File("docs/b.TXT", TRUE, FALSE, "ok", "Beta")
file_pdf == File("c.pdf", TRUE, FALSE, "raises", "")
file_doc == File("d.doc", TRUE, FALSE, "ok", "delta")
file_gone == File("gone.txt", FALSE, FALSE, "raises", "")
file_big == File("big.csv", TRUE, TRUE, "ok", "a,b")
file_blank == File("e.png", TRUE, FALSE, "ok", " \n")
file_latin == File("l.txt", TRUE, FALSE, "decode_error", "gamma")
file_locked == File("m.txt", TRUE, FALSE, "raises", "")

\* The file_paths arguments of process_files.
FileLists ==
    { <<>>, <<file_a>>, <<file_b>>, <<file_pdf>>, <<file_gone>>,
      <<file_blank>>, <<file_latin>>, <<file_a, file_b>>,
      <<file_gone, file_a>>, <<file_a, file_doc, file_b>>,
      <<file_big, file_latin>>, <<file_pdf, file_blank>>,
      <<file_locked, file_b>>, <<file_b, file_a>> }

\* The query arguments of process_files and search_documents.
FileQueries == { <<>>, Chars("beta ALPHA") }

\* os.path.splitext(file_path)[1].lower()
file_ext(path) ==
    LET slashes == {i \in 1..Len(path) : path[i] = "/"}
        base == IF slashes = {} THEN 1
                ELSE 1 + CHOOSE i \in slashes : \A j \in slashes : j <= i
        dots == {i \in (base + 1)..Len(path) : path[i] = "."}
    IN IF dots = {} THEN <<>>
       ELSE ToLower(SubSeq(path, CHOOSE i \in dots : \A j \in dots : j <= i,
                           Len(path)))

\* The dict an extraction returns when it fails.
extraction_failure(message) ==
    [text |-> <<>>, metadata |-> [error |-> message], success |-> FALSE]

\* The dict an extraction returns when it succeeds.
extraction_success(text, file_type, method) ==
    [text |-> text,
     metadata |-> [file_type |-> file_type, extraction_method |-> method],
     success |-> TRUE]

\* _extract_pdf_text, _extract_image_text, _extract_tabular_text: any
\* exception of the library is caught inside the helper.
extract_with_library(file, file_type, method, message) ==
    IF file.read.kind = "ok"
    THEN extraction_success(file.read.text, file_type, method)
    ELSE extraction_failure(message)

\* _extract_text_file: utf-8 first, latin-1 after a UnicodeDecodeError; any
\* other exception leaves the helper and is caught by the caller.
extract_text_file(file) ==
    IF file.read.kind = "ok"
    THEN extraction_success(file.read.text, "text", "direct_read")
    ELSE IF file.read.kind = "decode_error"
    THEN extraction_success(file.read.text, "text", "direct_read_latin1")
    ELSE extraction_failure("Error processing file")

extract_text_from_file(file) ==
    LET ext == file_ext(file.file_path) IN
    IF ~file.exists THEN extraction_failure("File not found")
    ELSE IF file.too_large THEN extraction_failure("File too large")
    ELSE IF ext = Chars(".pdf")
    THEN extract_with_library(file, "pdf", "pymupdf", "PDF extraction failed")
    ELSE IF ext \in {Chars(".png"), Chars(".jpg"), Chars(".jpeg"),
                     Chars(".gif"), Chars(".bmp")}
    THEN extract_with_library(file, "image", "tesseract_ocr",
                              "Image OCR failed")
    ELSE IF ext \in {Chars(".csv"), Chars(".xlsx"), Chars(".xls")}
    THEN extract_with_library(file, "tabular", "pandas",
                              "Tabular extraction failed")
    ELSE IF ext = Chars(".txt") THEN extract_text_file(file)
    ELSE extraction_failure("Unsupported file type")

\* [text[i:i+chunk_size] for i in range(0, len(text), chunk_size)]
simple_chunks(text) ==
    [j \in 1..((Len(text) + CHUNK_SIZE - 1) \div CHUNK_SIZE) |->
        SubSeq(text, (j - 1) * CHUNK_SIZE + 1,
               IF j * CHUNK_SIZE < Len(text) THEN j * CHUNK_SIZE
               ELSE Len(text))]

\* The merge step of the text splitter: pieces are joined by the separator
\* for as long as the chunk stays within chunk_size.
RECURSIVE merge_splits(_, _)
merge_splits(pieces, current) ==
    IF pieces = <<>> THEN (IF current = <<>> THEN <<>> ELSE <<current>>)
    ELSE IF current = <<>> THEN merge_splits(Tail(pieces), Head(pieces))
    ELSE IF Len(current) + 1 + Len(Head(pieces)) <= CHUNK_SIZE
    THEN merge_splits(Tail(pieces), current \o <<" ">> \o Head(pieces))
    ELSE <<current>> \o merge_splits(Tail(pieces), Head(pieces))

\* self.text_splitter.split_text(text) for a text of words separated by
\* single spaces, each word longer than the overlap and no longer than
\* chunk_size: the words are merged into chunks, nothing carries over.
split_text(text) == merge_splits(Words(text), <<>>)

\* The chunks of one file with their metadata: none unless the extraction
\* succeeded with a text that is not blank.
file_chunks(file, embeddings) ==
    LET extraction_result == extract_text_from_file(file)
        chunks == IF embeddings THEN split_text(extraction_result.text)
                  ELSE simple_chunks(extraction_result.text)
    IN IF extraction_result.success /\ Strip(extraction_result.text) # <<>>
       THEN [j \in DOMAIN chunks |->
               [text |-> chunks[j],
                metadata |->
                    [file_type |-> extraction_result.metadata.file_type,
                     extraction_method |->
                         extraction_result.metadata.extraction_method,
                     file_path |-> file.file_path,
                     chunk_length |-> Len(chunks[j])]]]
       ELSE <<>>

\* Variant: the loop stops at the first file whose extraction fails.
all_chunks_abort_on_failure(files, embeddings) ==
    LET failed == {i \in DOMAIN files : ~extract_text_from_file(files[i]).success}
        upto == IF failed = {} THEN Len(files)
                ELSE (CHOOSE i \in failed : \A j \in failed : i <= j) - 1
    IN Flatten([i \in 1..upto |-> file_chunks(files[i], embeddings)])

\* all_texts and all_metadatas after the loop of process_files, paired.
all_chunks(files, embeddings) ==
    Flatten([i \in DOMAIN files |-> file_chunks(files[i], embeddings)])

\* processing_results after the loop of process_files.
processing_results_of(files) ==
    [i \in DOMAIN files |->
        [file_path |-> files[i].file_path,
         success |-> extract_text_from_file(files[i]).success,
         metadata |-> extract_text_from_file(files[i]).metadata]]

build_simple_text_store(texts, metadatas) ==
    [type |-> "simple_text_store", texts |-> texts, metadatas |-> metadatas,
     total_chunks |-> Len(texts)]

\* build_vectorstore: an index when embeddings are in use and FAISS builds
\* it, the simple text store otherwise.
build_vectorstore(texts, metadatas, embeddings, faiss_ok) ==
    IF embeddings /\ faiss_ok
    THEN [type |-> "faiss", texts |-> texts, metadatas |-> metadatas,
          total_chunks |-> Len(texts)]
    ELSE build_simple_text_store(texts, metadatas)

\* set(query.lower().split())
query_words(query) == Range(Words(ToLower(query)))

\* list.sort(key=similarity_score, reverse=True): stable, highest first.
RECURSIVE sort_by_score(_)
sort_by_score(hits) ==
    IF hits = <<>> THEN <<>>
    ELSE LET best == CHOOSE i \in DOMAIN hits :
                       /\ \A j \in DOMAIN hits :
                             ~RatLess(hits[i].similarity_score,
                                      hits[j].similarity_score)
                       /\ \A j \in 1..(i - 1) :
                             RatLess(hits[j].similarity_score,
                                     hits[i].similarity_score)
         IN <<hits[best]>>
            \o sort_by_score(SubSeq(hits, 1, best - 1)
                             \o SubSeq(hits, best + 1, Len(hits)))

simple_text_search(store, query, k) ==
    LET words == query_words(query)
        matches(text) ==
            Cardinality({w \in words : Contains(ToLower(text), w)})
        scored_chunks ==
            [i \in {j \in DOMAIN store.texts : matches(store.texts[j]) > 0} |->
                [content |-> store.texts[i],
                 metadata |-> store.metadatas[i],
                 similarity_score |-> Rat(matches(store.texts[i]),
                                          Cardinality(words)),
                 source |-> "file_analysis"]]
        in_order ==
            SelectSeq([i \in DOMAIN store.texts |-> i],
                      LAMBDA i : i \in DOMAIN scored_chunks)
    IN Take(sort_by_score([n \in DOMAIN in_order |-> scored_chunks[in_order[n]]]),
            k)

\* What search_documents may return: nothing without a store, the keyword
\* hits of a simple text store, and for an index the k nearest chunks in the
\* order and at the distances the embedding gives, or nothing when the
\* index raises.
search_documents(store, query, k) ==
    IF store = None THEN { <<>> }
    ELSE IF store.type = "simple_text_store"
    THEN { simple_text_search(store, query, k) }
    ELSE { <<>> } \cup
         { [n \in 1..Len(Take(o, k)) |->
              [content |-> store.texts[o[n]],
               metadata |-> store.metadatas[o[n]],
               similarity_score |-> Rat(n, 2),
               source |-> "file_analysis"]] :
           o \in Orderings([i \in DOMAIN store.texts |-> i]) }

\* Variant: without any text the store of the call before is kept.
vectorstore_after_keeps_index(files, embeddings, faiss_ok) ==
    LET all == all_chunks(files, embeddings) IN
    IF all # <<>>
    THEN build_vectorstore([i \in DOMAIN all |-> all[i].text],
                           [i \in DOMAIN all |-> all[i].metadata],
                           embeddings, faiss_ok)
    ELSE vectorstore

\* self.vectorstore after process_files.
vectorstore_after(files, embeddings, faiss_ok) ==
    LET all == all_chunks(files, embeddings) IN
    IF all # <<>>
    THEN build_vectorstore([i \in DOMAIN all |-> all[i].text],
                           [i \in DOMAIN all |-> all[i].metadata],
                           embeddings, faiss_ok)
    ELSE None

\* The file paths whose chunks a store holds.
indexed_paths(store) ==
    IF store = None THEN {}
    ELSE {store.metadatas[i].file_path : i \in DOMAIN store.metadatas}

FilesInit ==
    /\ use_embeddings \in BOOLEAN
    /\ vectorstore = None
    /\ f_op = "none"
    /\ f_files = <<>>
    /\ f_query = <<>>
    /\ f_before = {}
    /\ f_ret = None
    /\ OrchIdle
    /\ RouterIdle
    /\ SearchIdle
    /\ SynthIdle
    /\ StoreIdle
    /\ AgentIdle

\* process_files(file_paths, query)
CallProcessFiles ==
    \E files \in FileLists, query \in FileQueries, faiss_ok \in BOOLEAN :
       LET store == vectorstore_after(files, use_embeddings, faiss_ok) IN
       /\ f_op' = "process_files"
       /\ f_files' = files
       /\ f_query' = query
       /\ f_before' = indexed_paths(vectorstore)
       /\ vectorstore' = store
       /\ \E search_results \in
               (IF query # <<>> /\ store # None
                THEN search_documents(store, query, search_k)
                ELSE { <<>> }) :
            f_ret' =
               [query |-> query,
                files_processed |-> Len(files),
                processing_results |-> processing_results_of(files),
                total_chunks |-> Len(all_chunks(files, use_embeddings)),
                vectorstore_built |-> store # None,
                vectorstore_type |->
                    IF store # None /\ store.type = "simple_text_store"
                    THEN "simple_text_store" ELSE "faiss_vectorstore",
                search_results |-> search_results]
       /\ UNCHANGED <<use_embeddings, orchVars, routerVars, searchVars,
                      synthVars, storeVars, agentVars>>

\* search_documents(query, k) called on the agent as it stands
CallSearchDocuments ==
    \E query \in FileQueries, k \in {1, search_k} :
       /\ f_op' = "search_documents"
       /\ f_query' = query
       /\ f_before' = indexed_paths(vectorstore)
       /\ \E results \in search_documents(vectorstore, query, k) :
            f_ret' = [k |-> k, results |-> results]
       /\ UNCHANGED <<use_embeddings, vectorstore, f_files, orchVars,
                      routerVars, searchVars, synthVars, storeVars, agentVars>>

FilesNext ==
    \/ CallProcessFiles
    \/ CallSearchDocuments

SpecFiles == FilesInit /\ [][FilesNext]_vars

-----------------------------------------------------------------------------
(* File analysis properties *)

\* The extensions extract_text_from_file has a branch for.
SupportedExtensions ==
    { Chars(".pdf"), Chars(".png"), Chars(".jpg"), Chars(".jpeg"),
      Chars(".gif"), Chars(".bmp"), Chars(".csv"), Chars(".xlsx"),
      Chars(".xls"), Chars(".txt") }

EndsWith(s, suffix) ==
    /\ Len(suffix) <= Len(s)
    /\ SubSeq(s, Len(s) - Len(suffix) + 1, Len(s)) = suffix

\* A file no text can be got from: missing, over the size limit, of a type
\* without an extractor, or one whose reading fails; a text file that is
\* not valid utf-8 is still read as latin-1.
CannotBeExtracted(file) ==
    \/ ~file.exists
    \/ file.too_large
    \/ \A ext \in SupportedExtensions : ~EndsWith(ToLower(file.file_path), ext)
    \/ file.read.kind = "raises"
    \/ /\ file.read.kind = "decode_error"
       /\ ~EndsWith(ToLower(file.file_path), Chars(".txt"))

\* A text without its whitespace.
Squeeze(text) == SelectSeq(text, LAMBDA c : c \notin Whitespace)

\* The texts a store holds for a file path, in order.
IndexedTextsOf(store, path) ==
    IF store = None THEN <<>>
    ELSE LET at == SelectSeq([i \in DOMAIN store.texts |-> i],
                             LAMBDA i : store.metadatas[i].file_path = path)
         IN [n \in DOMAIN at |-> store.texts[at[n]]]

ProcessFilesReturned == f_op = "process_files"

\* C22: process_files returns one processing_results entry per input path in
\* input order; a file that cannot be extracted has success = false and an
\* error in its own entry and no chunk in the index, and every other file of
\* the list is reported as extracted and its text is in the index.
C22_ExtractionFailurePerFile ==
    ProcessFilesReturned =>
        /\ Len(f_ret.processing_results) = Len(f_files)
        /\ \A i \in DOMAIN f_files :
              LET entry == f_ret.processing_results[i]
                  indexed == IndexedTextsOf(vectorstore, f_files[i].file_path)
              IN /\ entry.file_path = f_files[i].file_path
                 /\ IF CannotBeExtracted(f_files[i])
                    THEN /\ entry.success = FALSE
                         /\ "error" \in DOMAIN entry.metadata
                         /\ indexed = <<>>
                    ELSE /\ entry.success = TRUE
                         /\ "error" \notin DOMAIN entry.metadata
                         /\ Squeeze(Flatten(indexed))
                               = Squeeze(f_files[i].read.text)

\* A call in which a file that cannot be extracted comes before one that can
\* and the latter's text is indexed.
C22_Witness ==
    /\ ProcessFilesReturned
    /\ vectorstore # None
    /\ \E i, j \in DOMAIN f_files :
          /\ i < j
          /\ CannotBeExtracted(f_files[i])
          /\ ~CannotBeExtracted(f_files[j])
          /\ IndexedTextsOf(vectorstore, f_files[j].file_path) # <<>>

-----------------------------------------------------------------------------
(* Chunking *)

\* The number of chunks a content is cut into: its documents are shorter
\* than a chunk, so each one that is not blank is one chunk.
ExpectedChunkCount(docs) ==
    Cardinality({i \in DOMAIN docs : Strip(docs[i]) # <<>>})

\* The number of chunks the index of a name holds.
IndexChunkCount(name) ==
    IF name \in DOMAIN vector_stores THEN Len(vector_stores[name].index_of)
    ELSE 0

\* C23: after load_and_embed_file returns True, the index of the file name
\* holds as many chunks as the ingested content is cut into, whatever was
\* ingested under the name before.
C23_ChunkCountDeterministic ==
    (IngestEnded /\ i_result = "True") =>
        IndexChunkCount(i_name) = ExpectedChunkCount(i_docs)

-----------------------------------------------------------------------------
(* WebSearchAgent.process_query and extract_key_information                *)
(* (src/agents/web_search_agent.py)                                        *)

\* Number of key facts kept, and the length a key fact is cut to.
max_key_facts == 3
key_fact_length == 200

\* Least length an LLM answer must exceed to be taken before any search.
min_answer_length == 20

\* The query arguments: one without and two with a current-information
\* indicator ("know" contains "now").
AgentQueries ==
    { Chars("capital of France"), Chars("Latest NEWS"),
      Chars("what do you know") }

\* Entries of a results list as search() builds them.
SearchEntry(rank, title, url, snippet) ==
    [rank |-> rank, title |-> Chars(title), url |-> Chars(url),
     snippet |-> snippet, source |-> "web_search"]

entry_paris ==
    SearchEntry(1, "Paris", "http://p", Chars("Paris is the capital of France"))
entry_news ==
    SearchEntry(2, "News", "http://n", Chars("latest news of the capital"))
entry_text ==
    SearchEntry(3, "Result", "", Chars("france, you know"))
entry_other ==
    SearchEntry(4, "Other", "http://o", Chars("nothing relevant"))
entry_long ==
    SearchEntry(5, "Long", "http://l",
                Chars("news ") \o [i \in 1..key_fact_length |-> "x"])

\* The entry search() returns when the backend failed.
entry_error ==
    [rank |-> 1, title |-> Chars("Search Error"), url |-> <<>>,
     snippet |-> Chars("Unable to perform web search after retries due to rate-limiting."),
     source |-> "web_search", error |-> TRUE]

\* Lists search() returns: the processed results of an attempt, or the error
\* entry alone.
SearchReturns ==
    { <<>>, <<entry_error>>, <<entry_paris>>, <<entry_text>>,
      <<entry_paris, entry_news, entry_text, entry_other>>,
      <<entry_news, entry_long>> }

\* The results arguments of extract_key_information: those lists, and lists
\* that mix error entries with results.
ResultLists ==
    SearchReturns
    \cup { <<entry_error, entry_error>>,
           <<entry_paris, entry_error, entry_news>>,
           <<entry_error, entry_paris, entry_news, entry_text, entry_long>> }

\* What self.llm.answer(query) gives: None, a str, or an exception.
AnswerOutcomes ==
    { [kind |-> "none", text |-> <<>>],
      [kind |-> "raises", text |-> <<>>],
      [kind |-> "answer", text |-> <<>>],
      [kind |-> "answer", text |-> Chars("Paris.")],
      [kind |-> "answer", text |-> Chars("Exactly twenty chars")],
      [kind |-> "answer", text |-> Chars("The capital of France is Paris.")] }

\* What self.search(query) gives: a list, or an exception.
SearchCallOutcomes ==
    { [kind |-> "raises", results |-> <<>>] }
    \cup { [kind |-> "returns", results |-> r] : r \in SearchReturns }

\* result.get("error", False)
is_error(entry) == "error" \in DOMAIN entry /\ entry.error

\* Variant: no cap at 1.
source_confidence_uncapped(n) == IF n > 0 THEN Rat(n, 3) ELSE Rat(0, 1)

\* min(1.0, len(sources) / 3.0) if sources else 0.0
source_confidence(n) ==
    IF n = 0 THEN Rat(0, 1)
    ELSE IF RatLess(Rat(n, 3), Rat(1, 1)) THEN Rat(n, 3) ELSE Rat(1, 1)

\* list.sort(key=relevance_score, reverse=True): stable, highest first.
RECURSIVE sort_by_relevance(_)
sort_by_relevance(items) ==
    IF items = <<>> THEN <<>>
    ELSE LET best == CHOOSE i \in DOMAIN items :
                       /\ \A j \in DOMAIN items :
                             ~RatLess(items[i].relevance_score,
                                      items[j].relevance_score)
                       /\ \A j \in 1..(i - 1) :
                             RatLess(items[j].relevance_score,
                                     items[i].relevance_score)
         IN <<items[best]>>
            \o sort_by_relevance(SubSeq(items, 1, best - 1)
                                 \o SubSeq(items, best + 1, Len(items)))

\* s[:200] + "..." if len(s) > 200 else s
cut_key_fact(snippet) ==
    IF Len(snippet) > key_fact_length
    THEN SubSeq(snippet, 1, key_fact_length) \o Chars("...")
    ELSE snippet

\* The keyword ranking of the snippets.
keyword_ranked_snippets(all_snippets, query) ==
    LET query_keywords == Range(Words(ToLower(query)))
        keyword_matches(snippet) ==
            Cardinality({k \in query_keywords : Contains(ToLower(snippet), k)})
        relevant_snippets ==
            SelectSeq([i \in DOMAIN all_snippets |->
                         [snippet |-> all_snippets[i],
                          relevance_score |->
                              Rat(keyword_matches(all_snippets[i]),
                                  IF query_keywords = {} THEN 1
                                  ELSE Cardinality(query_keywords))]],
                      LAMBDA item : item.relevance_score.num > 0)
        top == Take(sort_by_relevance(relevant_snippets), max_key_facts)
    IN [i \in DOMAIN top |-> cut_key_fact(top[i].snippet)]

\* The rankings the embedding model may give: the first three snippets of
\* any order of them.
embedding_ranked_snippets(all_snippets) ==
    { Take(o, max_key_facts) : o \in Orderings(all_snippets) }

\* What extract_key_information may return; embeddings says whether the
\* sentence-transformers model was loaded.
extract_key_information(results, query, embeddings) ==
    LET kept == SelectSeq(results, LAMBDA entry : ~is_error(entry))
        sources == [i \in DOMAIN kept |->
                      [title |-> kept[i].title, url |-> kept[i].url,
                       rank |-> kept[i].rank]]
        all_snippets == [i \in DOMAIN kept |-> kept[i].snippet]
        rankings == IF embeddings /\ all_snippets # <<>>
                    THEN embedding_ranked_snippets(all_snippets)
                    ELSE { keyword_ranked_snippets(all_snippets, query) }
    IN IF results = <<>>
       THEN { [summary |-> Chars("No search results found"),
               key_facts |-> <<>>, sources |-> <<>>,
               confidence |-> Rat(0, 1)] }
       ELSE { [summary |-> Chars("Found ") \o Str(Len(sources))
                           \o Chars(" relevant sources for '") \o query
                           \o Chars("'"),
               key_facts |-> ranked_snippets,
               sources |-> sources,
               confidence |-> source_confidence(Len(sources)),
               total_results |-> Len(results)] :
              ranked_snippets \in rankings }

current_indicators ==
    << Chars("current"), Chars("latest"), Chars("recent"), Chars("today"),
       Chars("now"), Chars("this year"), Chars("2024"), Chars("2025"),
       Chars("weather"), Chars("news"), Chars("stock"), Chars("price"),
       Chars("election"), Chars("covid"), Chars("pandemic"),
       Chars("breaking"), Chars("update"), Chars("just"), Chars("happened"),
       Chars("live"), Chars("real-time") >>

is_current_information_needed(query) ==
    AnyIndicatorIn(current_indicators, ToLower(query))

\* A dict process_query returns without a search result in it.
llm_result(query, search_type, summary, key_fact, confidence) ==
    [query |-> query, search_type |-> search_type, results |-> <<>>,
     extracted_info |-> [summary |-> Chars(summary),
                         key_facts |-> <<key_fact>>, sources |-> <<>>,
                         confidence |-> confidence, total_results |-> 0],
     agent_type |-> IF search_type = "llm" THEN "llm_first" ELSE search_type]

\* The LLM-first step: whether it is taken and whether it returns.
llm_first_asked(query) == ~is_current_information_needed(query)

\* Variant: any non-empty answer is taken.
llm_first_returns_any_answer(query, first) ==
    /\ llm_first_asked(query)
    /\ first.kind = "answer"
    /\ first.text # <<>>

llm_first_returns(query, first) ==
    /\ llm_first_asked(query)
    /\ first.kind = "answer"
    /\ first.text # <<>>
    /\ Len(Strip(first.text)) > min_answer_length

\* results and not all(r.get("error", False) for r in results)
search_usable(search) ==
    /\ search.kind = "returns"
    /\ search.results # <<>>
    /\ \E i \in DOMAIN search.results : ~is_error(search.results[i])

\* What process_query may return.
web_process_query(query, first, search, fallback, embeddings) ==
    IF llm_first_returns(query, first)
    THEN { llm_result(query, "llm", "Answer retrieved from Gemini LLM",
                      first.text, Rat(9, 10)) }
    ELSE IF search_usable(search)
    THEN { [query |-> query, search_type |-> "web",
            results |-> search.results, extracted_info |-> info,
            agent_type |-> "web_search"] :
           info \in extract_key_information(search.results, query, embeddings) }
    ELSE IF fallback.kind = "answer" /\ fallback.text # <<>>
    THEN { llm_result(query, "llm_fallback",
                      "Answer retrieved from Gemini LLM (web search failed)",
                      fallback.text, Rat(7, 10)) }
    ELSE { llm_result(query, "error",
                      "Unable to process query - all methods failed",
                      apology_fact, Rat(0, 1)) }

\* The collaborators process_query calls, in order.
calls_made(query, first, search) ==
    (IF llm_first_asked(query) THEN <<"llm">> ELSE <<>>)
    \o (IF llm_first_returns(query, first) THEN <<>>
        ELSE <<"search">>
             \o (IF search_usable(search) THEN <<>> ELSE <<"llm">>))

AgentInit ==
    /\ \/ /\ p_op = "process_query"
          /\ p_query \in AgentQueries
          /\ p_first \in AnswerOutcomes
          /\ p_search \in SearchCallOutcomes
          /\ p_fallback \in AnswerOutcomes
          /\ p_results = <<>>
       \/ /\ p_op = "extract_key_information"
          /\ p_query \in AgentQueries \cup { <<>> }
          /\ p_first = None
          /\ p_search = None
          /\ p_fallback = None
          /\ p_results \in ResultLists
    /\ p_asked = <<>>
    /\ p_ret = None
    /\ OrchIdle
    /\ RouterIdle
    /\ SearchIdle
    /\ SynthIdle
    /\ StoreIdle
    /\ FilesIdle

\* process_query(query)
CallWebProcessQuery ==
    /\ p_op = "process_query"
    /\ p_ret = None
    /\ \E embeddings \in BOOLEAN :
         p_ret' \in web_process_query(p_query, p_first, p_search, p_fallback,
                                      embeddings)
    /\ p_asked' = calls_made(p_query, p_first, p_search)
    /\ UNCHANGED <<p_op, p_query, p_first, p_search, p_fallback, p_results,
                   orchVars, routerVars, searchVars, synthVars, storeVars,
                   fileVars>>

\* extract_key_information(results, query)
CallExtractKeyInformation ==
    /\ p_op = "extract_key_information"
    /\ p_ret = None
    /\ \E embeddings \in BOOLEAN :
         p_ret' \in extract_key_information(p_results, p_query, embeddings)
    /\ UNCHANGED <<p_op, p_query, p_first, p_search, p_fallback, p_results,
                   p_asked, orchVars, routerVars, searchVars, synthVars,
                   storeVars, fileVars>>

AgentNext ==
    \/ CallWebProcessQuery
    \/ CallExtractKeyInformation

SpecAgent == AgentInit /\ [][AgentNext]_vars

-----------------------------------------------------------------------------
(* Web agent properties *)

ExtractReturned == p_op = "extract_key_information" /\ p_ret # None

\* An entry of a results list that is flagged as an error.
FlaggedError(entry) == "error" \in DOMAIN entry /\ entry.error = TRUE

\* The number of results not flagged as errors.
NonErrorCount(results) ==
    Cardinality({i \in DOMAIN results : ~FlaggedError(results[i])})

\* C24: extract_key_information returns the confidence min(1, n/3) for the n
\* results not flagged as errors, a number within [0,1]; it returns at most
\* 3 key facts, and its sources are the n unflagged results, none of them an
\* error entry.
C24_KeyInformationConfidence ==
    ExtractReturned =>
        LET n == NonErrorCount(p_results) IN
        /\ RatEq(p_ret.confidence, IF n >= 3 THEN Rat(1, 1) ELSE Rat(n, 3))
        /\ InUnitInterval(p_ret.confidence)
        /\ Len(p_ret.key_facts) <= 3
        /\ Len(p_ret.sources) = n
        /\ \A i \in DOMAIN p_ret.sources :
              \A j \in DOMAIN p_results :
                  FlaggedError(p_results[j]) =>
                      p_ret.sources[i].title # p_results[j].title

\* A list with an error entry and more than three results, answered with
\* three key facts.
C24_Witness ==
    /\ ExtractReturned
    /\ NonErrorCount(p_results) > 3
    /\ \E j \in DOMAIN p_results : FlaggedError(p_results[j])
    /\ Len(p_ret.key_facts) = 3

ProcessQueryReturned == p_op = "process_query" /\ p_ret # None

\* The query contains one of the current-information indicators.
HasCurrentIndicator(query) ==
    \E i \in DOMAIN current_indicators :
        Contains(ToLower(query), current_indicators[i])

\* The result kind the precedence gives for the query and for what the
\* LLM (asked first, asked last) and the search answer.
ExpectedKind ==
    IF /\ ~HasCurrentIndicator(p_query)
       /\ p_first.kind = "answer"
       /\ Len(p_first.text) > 20
    THEN "llm"
    ELSE IF /\ p_search.kind = "returns"
            /\ \E i \in DOMAIN p_search.results :
                  ~FlaggedError(p_search.results[i])
    THEN "web"
    ELSE IF p_fallback.kind = "answer" /\ Len(p_fallback.text) > 0
    THEN "llm_fallback"
    ELSE "error"

\* C25: process_query returns the 'llm' kind with confidence 0.9 when the
\* query has no current-information indicator and the first LLM answer is
\* longer than 20 characters, else the 'web' kind when the search returned
\* an entry not flagged as error, else the 'llm_fallback' kind with
\* confidence 0.7 when the LLM then gives a non-empty answer, else the
\* 'error' kind with confidence 0.0 and an apology as its only key fact;
\* only the 'web' kind carries results, and for a query with an indicator
\* the search is the first collaborator asked.
C25_ResultKindPrecedence ==
    ProcessQueryReturned =>
        /\ p_ret.search_type = ExpectedKind
        /\ p_ret.search_type = "llm" =>
              /\ RatEq(p_ret.extracted_info.confidence, Rat(9, 10))
              /\ p_ret.extracted_info.key_facts = <<p_first.text>>
        /\ p_ret.search_type = "web" => p_ret.results = p_search.results
        /\ p_ret.search_type = "llm_fallback" =>
              /\ RatEq(p_ret.extracted_info.confidence, Rat(7, 10))
              /\ p_ret.extracted_info.key_facts = <<p_fallback.text>>
        /\ p_ret.search_type = "error" =>
              /\ RatEq(p_ret.extracted_info.confidence, Rat(0, 1))
              /\ Len(p_ret.extracted_info.key_facts) = 1
              /\ IsApology(p_ret.extracted_info.key_facts[1])
        /\ p_ret.search_type # "web" => p_ret.results = <<>>
        /\ HasCurrentIndicator(p_query) =>
              p_asked # <<>> /\ Head(p_asked) = "search"

\* A query without indicator whose first LLM answer was too short and whose
\* search gave nothing usable, answered by the LLM asked again.
C25_Witness ==
    /\ ProcessQueryReturned
    /\ p_ret.search_type = "llm_fallback"
    /\ p_asked = <<"llm", "search", "llm">>
    /\ p_first.kind = "answer"
    /\ p_first.text # <<>>

-----------------------------------------------------------------------------
(* Workflow termination *)

\* No node has run twice.
NoNodeTwice ==
    \A i, j \in DOMAIN trace : trace[i] = trace[j] => i = j

\* C26: every invocation of the workflow reaches END, after at most four
\* node executions and without running a node twice, whatever the route and
\* whatever each node's collaborator returns or raises.
C26_WorkflowTerminates ==
    /\ [](Len(trace) <= 4 /\ NoNodeTwice)
    /\ <>Finished

\* The longest run: all four nodes executed and END reached.
C26_Witness ==
    /\ node = "END"
    /\ Len(trace) = 4
    /\ raised # {}

-----------------------------------------------------------------------------
(* Index of the file analysis agent *)

\* The files of the most recent process_files call that text was got from.
ExtractedFiles ==
    {i \in DOMAIN f_files :
        /\ ~CannotBeExtracted(f_files[i])
        /\ Squeeze(f_files[i].read.text) # <<>>}

\* The results of the last search, made inside process_files or directly.
LastSearchResults ==
    IF f_op = "process_files" THEN f_ret.search_results
    ELSE IF f_op = "search_documents" THEN f_ret.results
    ELSE <<>>

\* C27: the agent's index holds the text of exactly the files extracted in
\* the most recent process_files call and is None when that call extracted
\* no text, and every chunk a search returns is a chunk of that index and
\* of a file of that call.
C27_IndexIsLatestCallOnly ==
    /\ (vectorstore = None) <=> (ExtractedFiles = {})
    /\ indexed_paths(vectorstore)
          = {f_files[i].file_path : i \in ExtractedFiles}
    /\ \A i \in ExtractedFiles :
          Squeeze(Flatten(IndexedTextsOf(vectorstore, f_files[i].file_path)))
             = Squeeze(f_files[i].read.text)
    /\ \A n \in DOMAIN LastSearchResults :
          /\ LastSearchResults[n].metadata.file_path
                \in {f_files[i].file_path : i \in DOMAIN f_files}
          /\ \E c \in DOMAIN vectorstore.texts :
                /\ vectorstore.texts[c] = LastSearchResults[n].content
                /\ vectorstore.metadatas[c] = LastSearchResults[n].metadata

\* A call on an agent whose index held other files, answered with chunks.
C27_Witness ==
    /\ f_op = "process_files"
    /\ f_before # {}
    /\ f_before \cap {f_files[i].file_path : i \in DOMAIN f_files} = {}
    /\ f_ret.search_results # <<>>

-----------------------------------------------------------------------------
(* Key facts of the web result in the synthesis context *)

\* key_facts of the web result handed to synthesize_response ([] for None).
WebKeyFacts == IF y_web = None THEN <<>> ELSE y_web.extracted_info.key_facts

\* C28: whenever the web result given to the synthesizer has a non-empty
\* key_facts list, the context built by combine_contexts (returned as
\* 'context_used') contains every one of those key facts, also when the
\* results list of the web result is empty (the 'llm', 'llm_fallback' kinds).
C28_KeyFactsReachContext ==
    (SynthCompleted /\ WebKeyFacts # <<>>) =>
        \A i \in DOMAIN WebKeyFacts :
            Contains(y_ret.context_used, WebKeyFacts[i])

-----------------------------------------------------------------------------
(* Failures of WebSearchAgent.search that are not rate limits *)

\* Positions in the attempt log of the attempts that raised something other
\* than a rate-limit error.
OtherFailures == {i \in 1..Len(s_log) : s_log[i].outcome = "error"}

\* C29: in WebSearchAgent.search only a rate-limited attempt is followed by a
\* wait and another attempt; an attempt that raises any other exception is
\* the last one, on whichever attempt it occurs: the search has ended with
\* the single entry flagged error = true, every earlier attempt was rate
\* limited, and the only waits made are those of the earlier attempts.
C29_OtherFailureEndsSearch ==
    s_agent = "WebSearchAgent" =>
        /\ \A i \in 1..Len(s_log) :
             i < Len(s_log) => s_log[i].outcome = "ratelimit"
        /\ \A i \in OtherFailures :
             /\ i = Len(s_log)
             /\ attempt = i
             /\ SearchDone
             /\ Len(s_ret) = 1
             /\ s_ret[1].error
             /\ Len(sleeps) = i - 1

\* An exception other than a rate limit on the second attempt, after one wait.
C29_Witness ==
    /\ s_agent = "WebSearchAgent"
    /\ SearchDone
    /\ Len(s_log) = 2
    /\ s_log[1].outcome = "ratelimit"
    /\ s_log[2].outcome = "error"
    /\ sleeps = <<initial_wait>>
    /\ s_ret = <<search_error_entry>>

-----------------------------------------------------------------------------
(* Removal of a file from the vector store manager *)

RetrievalEnded == rt_pc = "done"

\* The maps as remove_file(name) has to leave them: the name is in none of
\* them, every other name has the entries it had, and nothing at all has
\* changed when the name had no entry.
RemovedFrom(name) ==
    /\ Entry(name)' = AbsentEntry
    /\ \A other \in FileNames \ {name} : Entry(other)' = Entry(other)
    /\ Entry(name) = AbsentEntry =>
         UNCHANGED <<vector_stores, documents, fallback_texts>>

====
